---- MODULE Spec2Model ----
(***************************************************************************)
(* Master/worker replay supervisor of cli/fossilize_replay_windows.hpp.    *)
(*                                                                         *)
(* The master (run_master_process) partitions the pipeline indices over    *)
(* `processes` worker slots, spawns one child per slot, and then serves    *)
(* three waitable objects per slot (pipe event, process handle, crash      *)
(* timer) from one WaitForMultipleObjects loop.  A worker (run_slave_      *)
(* process + crash_handler) reads the blacklist from stdin, replays its    *)
(* range and, when it crashes, writes CRASH / MODULE / GRAPHICS / COMPUTE  *)
(* to its pipe before it exits with code 2.                                *)
(***************************************************************************)
EXTENDS Integers, Sequences, FiniteSets, TLC

\* ------------------------------------------------------------------ bounds
MaxProcs == 2        \* largest worker count (replayer_opts.num_threads)
MaxGraphics == 2     \* largest graphics-pipeline count of the archive
MaxCompute == 1      \* largest compute-pipeline count of the archive
NumHashes == 2       \* how many distinct shader-module hashes exist
MaxFailed == 2       \* largest num_failed_module_hashes of one crash
MaxCrashes == 1      \* crash handler runs per supervisor run
PartMaxProcs == 3    \* largest worker count tried on the partition alone

\* The shader-module hashes of the archive.  0 is a value of Hash (uint64_t)
\* like any other; 10 and 17 print as "a" and "11" in hexadecimal.
HashPool == <<0, 10, 17, 255, 4096>>
Hashes == {HashPool[k] : k \in 1..NumHashes}

\* ------------------------------------------------------- text conversions
HexDigits == <<"0", "1", "2", "3", "4", "5", "6", "7", "8", "9",
               "a", "b", "c", "d", "e", "f">>
HexChars == {HexDigits[k] : k \in 1..16}
DecChars == {HexDigits[k] : k \in 1..10}
OctChars == {HexDigits[k] : k \in 1..8}
DigitValue(c) == (CHOOSE k \in 1..16 : HexDigits[k] = c) - 1

\* sprintf("%llx"): lower-case hexadecimal, no leading zeros.
RECURSIVE FormatHex(_)
FormatHex(n) ==
    IF n < 16 THEN <<HexDigits[n + 1]>>
    ELSE FormatHex(n \div 16) \o <<HexDigits[(n % 16) + 1]>>

\* sprintf("%u") and std::to_string: decimal, no leading zeros.
RECURSIVE FormatDec(_)
FormatDec(n) ==
    IF n < 10 THEN <<HexDigits[n + 1]>>
    ELSE FormatDec(n \div 10) \o <<HexDigits[(n % 10) + 1]>>

\* The digits of `s` in `chars` read in `base`, stopping at the first other
\* character; 0 when there is none (strtol/strtoull without an end pointer).
RECURSIVE ReadDigits(_, _, _, _)
ReadDigits(s, base, chars, acc) ==
    IF s = <<>> \/ Head(s) \notin chars THEN acc
    ELSE ReadDigits(Tail(s), base, chars, acc * base + DigitValue(Head(s)))

RECURSIVE SkipSpace(_)
SkipSpace(s) ==
    IF s # <<>> /\ Head(s) \in {" ", "\n"} THEN SkipSpace(Tail(s)) ELSE s

\* strtoull(s, nullptr, 16)
Strtoull16(s) == ReadDigits(SkipSpace(s), 16, HexChars, 0)

\* strtol(s, nullptr, 0): a leading "0" selects octal, otherwise decimal
\* (the "0x" prefix is never produced by "%u").
Strtol0(s) ==
    LET t == SkipSpace(s) IN
    IF t # <<>> /\ Head(t) = "0" THEN ReadDigits(Tail(t), 8, OctChars, 0)
    ELSE ReadDigits(t, 10, DecChars, 0)

\* --------------------------------------------------------- the partition
\* unsigned arithmetic is modulo 2^32.  A product i * n with i < 2^16 is kept
\* as two 16-bit halves <<hi, lo>> so that it never leaves the integers of
\* TLC; n < 2^31.
Half == 2^16

Mul32(i, n) ==
    LET nl == n % Half
        nh == n \div Half
        lo == i * nl
    IN  <<(i * nh + lo \div Half) % Half, lo % Half>>

\* x / p for x = <<hi, lo>>, by long division.
Div32(x, p) ==
    LET r == x[1] % p IN (x[1] \div p) * Half + (r * Half + x[2]) \div p

\* (i * unsigned(num_pipelines)) / processes
PartitionBound(i, n, p) == Div32(Mul32(i, n), p)

\* ------------------------------------------------------------------ state
VARIABLES
    mpc,                   \* where run_master_process is: "start", "spawn", "loop",
                           \* "done" (EXIT_SUCCESS) or "failed" (EXIT_FAILURE)
    processes,             \* replayer_opts.num_threads
    num_graphics_pipelines,
    num_compute_pipelines,
    next_i,                \* the i of the spawn loop
    child_processes,       \* vector<ProcessProgress>, indexed 0..processes-1
    faulty_spirv_modules,  \* Global::faulty_spirv_modules
    active_processes,      \* Global::active_processes
    control_block,         \* Global::control_block (attached or not) and its fields
    worker,                \* the child process of each slot
    pipe,                  \* messages written to a slot's pipe and not yet read
    crashes,               \* crash handler runs so far (bounded by MaxCrashes)
    reported,              \* history: hashes of the MODULE messages parsed so far
    tally,                 \* history: processes created, exit codes read, stores made
    job,                   \* Global::job_handle, the job object and its processes
    vpc,                   \* namespace VPC: the pipelines, recorders and replayer at work
    last                   \* history: what the latest step of the master decided

vars == <<mpc, processes, num_graphics_pipelines, num_compute_pipelines, next_i,
          child_processes, faulty_spirv_modules, active_processes, control_block,
          worker, pipe, crashes, reported, tally, job, vpc, last>>

\* The state cache of namespace VPC takes no part in the supervisor.
NoVPC == [pc |-> "off"]

Slots == 0..(processes - 1)

\* struct ProcessProgress as default-constructed.  end_*_index is ~0u, all
\* bits set, written -1; it is assigned before it is ever read.
NewProcessProgress(i) ==
    [start_graphics_index |-> 0, start_compute_index |-> 0,
     end_graphics_index |-> -1, end_compute_index |-> -1,
     process |-> FALSE,             \* HANDLE process != nullptr
     crash_file_handle |-> FALSE,   \* != INVALID_HANDLE_VALUE
     timer_handle |-> "null",       \* "null", "armed" or "signaled"
     pipe_event |-> FALSE,          \* != nullptr
     io_pending |-> FALSE,          \* an overlapped ReadFile is outstanding
     compute_progress |-> -1, graphics_progress |-> -1,
     index |-> 0]

\* No child process in the slot.
NoWorker ==
    [state |-> "none", code |-> 0, stdin |-> <<>>, given |-> {}, masked |-> {},
     start_graphics_index |-> 0, end_graphics_index |-> 0,
     start_compute_index |-> 0, end_compute_index |-> 0,
     current_graphics_index |-> 0, current_compute_index |-> 0,
     failed_module_hashes |-> <<>>, hpc |-> 0, wrote |-> {}]

Idle ==
    [op |-> "none", slot |-> 0, code |-> 0, respawn |-> FALSE, spawned |-> FALSE,
     gp |-> -1, cp |-> -1, lost |-> <<>>, unread |-> 0, written |-> {},
     stage |-> "none", hpc |-> 0, at_g |-> 0, at_c |-> 0,
     before |-> NewProcessProgress(0), dirty0 |-> 0, clean0 |-> 0]

\* The master's mutable state as one value, so that the member functions can
\* be composed as the code composes them.
Master ==
    [cp |-> child_processes, faulty |-> faulty_spirv_modules,
     active |-> active_processes, cb |-> control_block,
     worker |-> worker, pipe |-> pipe, reported |-> reported, tally |-> tally]

\* ------------------------------------------------------------- messages
Message(cmd, text, h) == [cmd |-> cmd, arg |-> text, hash |-> h]

\* crash_handler's messages in the order it writes them.
RECURSIVE ModuleMessages(_)
ModuleMessages(hs) ==
    IF hs = <<>> THEN <<>>
    ELSE <<Message("MODULE", <<" ">> \o FormatHex(Head(hs)) \o <<"\n">>, Head(hs))>>
         \o ModuleMessages(Tail(hs))

\* Variant of HandlerMessages: CRASH is written after the report.
HandlerMessagesMutantCrashLast(w) ==
    ModuleMessages(w.failed_module_hashes)
    \o <<Message("GRAPHICS", <<" ">> \o FormatDec(w.current_graphics_index) \o <<"\n">>, -1),
         Message("COMPUTE", <<" ">> \o FormatDec(w.current_compute_index) \o <<"\n">>, -1),
         Message("CRASH", <<"\n">>, -1)>>

HandlerMessages(w) ==
    <<Message("CRASH", <<"\n">>, -1)>>
    \o ModuleMessages(w.failed_module_hashes)
    \o <<Message("GRAPHICS", <<" ">> \o FormatDec(w.current_graphics_index) \o <<"\n">>, -1),
         Message("COMPUTE", <<" ">> \o FormatDec(w.current_compute_index) \o <<"\n">>, -1)>>

\* The message crash_handler writes next, and the handler after writing it.
NextMessage(w) == HandlerMessages(w)[w.hpc]

AfterWrite(w) ==
    [w EXCEPT !.hpc = @ + 1,
              !.state = IF w.hpc = Len(HandlerMessages(w)) THEN "teardown" ELSE @,
              !.wrote = IF NextMessage(w).cmd = "MODULE"
                        THEN @ \cup {NextMessage(w).hash} ELSE @]

\* A process that has ended: only its exit code is left of it (and, for the
\* history, the hashes it wrote).
Exited(w, code) == [NoWorker EXCEPT !.state = "exited", !.code = code, !.wrote = w.wrote]

\* Where a child in its crash handler can be a moment later, with its pipe:
\* where it is, or after any number of further writes, or gone (exit code 2).
RECURSIVE Ahead(_, _)
Ahead(w, p) ==
    {[w |-> w, p |-> p]}
    \cup (IF w.state = "handler"
          THEN UNION {Ahead(n.w, n.p) :
                        n \in {[w |-> AfterWrite(w), p |-> Append(p, NextMessage(w))]}}
          ELSE IF w.state = "teardown" THEN {[w |-> Exited(w, 2), p |-> p]}
          ELSE {})

\* ------------------------------------------------- ProcessProgress::parse
\* Variant of ArmTimer: CRASH sets no timer.
ArmTimerMutantNone(M, i) == M

\* Variant of ArmTimer: the older timer is not closed.
ArmTimerMutantKeepOld(M, i) ==
    [M EXCEPT !.cp[i].timer_handle = "armed",
              !.tally.open[i].timer = @ + 1]

\* CRASH: an older timer is closed, a new one is created and set to fire in
\* one second.
ArmTimer(M, i) ==
    [M EXCEPT !.cp[i].timer_handle = "armed",
              !.tally.open[i].timer = (IF M.cp[i].timer_handle # "null" THEN @ - 1 ELSE @) + 1]

\* Variant of Parse: MODULE assigns the set instead of inserting into it.
ParseMutantNoInsert(M, i, msg) ==
    IF msg.cmd = "CRASH" THEN ArmTimer([M EXCEPT !.tally.crash_parsed[i] = TRUE], i)
    ELSE IF msg.cmd = "GRAPHICS" THEN
        [M EXCEPT !.cp[i].graphics_progress = Strtol0(msg.arg)]
    ELSE IF msg.cmd = "COMPUTE" THEN
        [M EXCEPT !.cp[i].compute_progress = Strtol0(msg.arg)]
    ELSE IF msg.cmd = "MODULE" THEN
        [M EXCEPT !.faulty = {Strtoull16(msg.arg)},
                  !.reported = @ \cup {msg.hash}]
    ELSE M

Parse(M, i, msg) ==
    IF msg.cmd = "CRASH" THEN ArmTimer([M EXCEPT !.tally.crash_parsed[i] = TRUE], i)
    ELSE IF msg.cmd = "GRAPHICS" THEN
        [M EXCEPT !.cp[i].graphics_progress = Strtol0(msg.arg)]
    ELSE IF msg.cmd = "COMPUTE" THEN
        [M EXCEPT !.cp[i].compute_progress = Strtol0(msg.arg)]
    ELSE IF msg.cmd = "MODULE" THEN
        [M EXCEPT !.faulty = @ \cup {Strtoull16(msg.arg)},
                  !.cb.banned_modules = IF M.cb.attached THEN @ + 1 ELSE @,
                  !.reported = @ \cup {msg.hash}]
    ELSE M

\* The write end of slot i's pipe is closed: the child is gone.
WriterClosed(M, i) == M.worker[i].state = "exited"

\* ProcessProgress::kick_overlapped_io: ReadFile fails at once (broken pipe)
\* when nothing is left to read and the writer is gone.
KickFails(M, i) == M.pipe[i] = <<>> /\ WriterClosed(M, i)

\* ------------------------------------------ ProcessProgress::process_once
\* The message at the head of the pipe has been copied to async_pipe_buffer.
Take(M, i) == [M EXCEPT !.pipe[i] = Tail(@)]

\* The tail of process_once: kick_overlapped_io and the value returned.
Kick(M, i) ==
    [ok |-> ~KickFails(M, i), M |-> [M EXCEPT !.cp[i].io_pending = ~KickFails(M, i)]]

\* [ok |-> the return value, M |-> the state after the call]
ProcessOnce(M, i) ==
    IF ~M.cp[i].crash_file_handle THEN [ok |-> FALSE, M |-> M]
    ELSE IF ~M.cp[i].io_pending THEN [ok |-> FALSE, M |-> M]
    ELSE IF M.pipe[i] = <<>> THEN
        \* GetOverlappedResult reports the broken pipe (the master only
        \* calls it with an empty pipe once the child is gone)
        [ok |-> FALSE, M |-> [M EXCEPT !.cp[i].io_pending = FALSE]]
    ELSE Kick(Take(Parse(M, i, Head(M.pipe[i])), i), i)

\* while (process_once());
RECURSIVE Flush(_, _)
FlushAgain(r, i) == IF r.ok THEN Flush(r.M, i) ELSE r.M

\* Variant of Flush: "if (process_once())", one read instead of a drain.
FlushMutantOnce(M, i) == ProcessOnce(M, i).M

\* (the result of a call is taken once, as a value, before it is used)
Flush(M, i) == CHOOSE F \in {FlushAgain(r, i) : r \in {ProcessOnce(M, i)}} : TRUE

\* ------------------------------------- ProcessProgress::process_shutdown
\* Variant of CloseHandles: the timer is left as it is.
CloseHandlesMutantKeepTimer(F, i) ==
    [F EXCEPT !.cp[i].crash_file_handle = FALSE,
              !.cp[i].pipe_event = FALSE,
              !.cp[i].io_pending = FALSE,
              !.cp[i].process = FALSE,
              !.active = IF F.cp[i].process THEN @ - 1 ELSE @,
              !.worker[i] = NoWorker,
              !.pipe[i] = <<>>,
              !.tally.codes = IF F.cp[i].process THEN @ \cup {F.worker[i].code} ELSE @,
              !.tally.open[i] =
                [process |-> IF F.cp[i].process THEN @.process - 1 ELSE @.process,
                 pipe |-> IF F.cp[i].crash_file_handle THEN @.pipe - 1 ELSE @.pipe,
                 event |-> IF F.cp[i].pipe_event THEN @.event - 1 ELSE @.event,
                 timer |-> @.timer]]

\* Variant of CloseHandles: Global::active_processes is not counted down.
CloseHandlesMutantKeepCount(F, i) ==
    [F EXCEPT !.cp[i].crash_file_handle = FALSE,
              !.cp[i].timer_handle = "null",
              !.cp[i].pipe_event = FALSE,
              !.cp[i].io_pending = FALSE,
              !.cp[i].process = FALSE,
              !.worker[i] = NoWorker,
              !.pipe[i] = <<>>,
              !.tally.codes = IF F.cp[i].process THEN @ \cup {F.worker[i].code} ELSE @,
              !.tally.open[i] =
                [process |-> IF F.cp[i].process THEN @.process - 1 ELSE @.process,
                 pipe |-> IF F.cp[i].crash_file_handle THEN @.pipe - 1 ELSE @.pipe,
                 event |-> IF F.cp[i].pipe_event THEN @.event - 1 ELSE @.event,
                 timer |-> IF F.cp[i].timer_handle # "null" THEN @.timer - 1 ELSE @.timer]]

\* The pipe, the timer and the event are closed, the child is reaped: a
\* handle that is not null is closed and set to null.
CloseHandles(F, i) ==
    [F EXCEPT !.cp[i].crash_file_handle = FALSE,
              !.cp[i].timer_handle = "null",
              !.cp[i].pipe_event = FALSE,
              !.cp[i].io_pending = FALSE,
              !.cp[i].process = FALSE,
              !.active = IF F.cp[i].process THEN @ - 1 ELSE @,
              !.worker[i] = NoWorker,
              !.pipe[i] = <<>>,
              !.tally.codes = IF F.cp[i].process THEN @ \cup {F.worker[i].code} ELSE @,
              !.tally.open[i] =
                [process |-> IF F.cp[i].process THEN @.process - 1 ELSE @.process,
                 pipe |-> IF F.cp[i].crash_file_handle THEN @.pipe - 1 ELSE @.pipe,
                 event |-> IF F.cp[i].pipe_event THEN @.event - 1 ELSE @.event,
                 timer |-> IF F.cp[i].timer_handle # "null" THEN @.timer - 1 ELSE @.timer]]

\* Variant of DirtyDeath: the early crash is counted as a clean death.
DirtyDeathMutantClean(C) ==
    [C EXCEPT !.cb.clean_process_deaths = IF C.cb.attached THEN @ + 1 ELSE @]

\* The early-crash branch: dirty_process_deaths.fetch_add(1)
DirtyDeath(C) ==
    [C EXCEPT !.cb.dirty_process_deaths = IF C.cb.attached THEN @ + 1 ELSE @]

\* Variant of Restart: start_graphics_index is taken from compute_progress.
RestartMutantSwapped(C, i, gp, cp) ==
    [C EXCEPT !.cb.clean_process_deaths = IF C.cb.attached THEN @ + 1 ELSE @,
              !.cp[i].start_graphics_index = cp,
              !.cp[i].start_compute_index = cp]

\* The start indices move to the reported progress.
Restart(C, i, gp, cp) ==
    [C EXCEPT !.cb.clean_process_deaths = IF C.cb.attached THEN @ + 1 ELSE @,
              !.cp[i].start_graphics_index = gp,
              !.cp[i].start_compute_index = cp]

Outcome(r, S, code, F, i) ==
    [ret |-> r, M |-> S, code |-> code, lost |-> F.pipe[i],
     gp |-> F.cp[i].graphics_progress, cp |-> F.cp[i].compute_progress]

\* Variant of Classify: an exit with code 0 is counted as a clean death.
ClassifyMutantCleanOnZero(F, C, i, code) ==
    IF code = 0 THEN Outcome(FALSE, Restart(C, i, F.cp[i].start_graphics_index,
                                            F.cp[i].start_compute_index), code, F, i)
    ELSE IF F.cp[i].graphics_progress < 0 \/ F.cp[i].compute_progress < 0
         THEN Outcome(FALSE, DirtyDeath(C), code, F, i)
    ELSE IF /\ F.cp[i].graphics_progress >= F.cp[i].end_graphics_index
            /\ F.cp[i].compute_progress >= F.cp[i].end_compute_index
         THEN Outcome(FALSE,
                      Restart(C, i, F.cp[i].graphics_progress, F.cp[i].compute_progress),
                      code, F, i)
         ELSE Outcome(TRUE,
                      Restart(C, i, F.cp[i].graphics_progress, F.cp[i].compute_progress),
                      code, F, i)

\* Variant of Classify: the test of the exit code against 0 is left out.
ClassifyMutantNoZeroTest(F, C, i, code) ==
    IF F.cp[i].graphics_progress < 0 \/ F.cp[i].compute_progress < 0
    THEN Outcome(FALSE, DirtyDeath(C), code, F, i)
    ELSE IF /\ F.cp[i].graphics_progress >= F.cp[i].end_graphics_index
            /\ F.cp[i].compute_progress >= F.cp[i].end_compute_index
         THEN Outcome(FALSE,
                      Restart(C, i, F.cp[i].graphics_progress, F.cp[i].compute_progress),
                      code, F, i)
         ELSE Outcome(TRUE,
                      Restart(C, i, F.cp[i].graphics_progress, F.cp[i].compute_progress),
                      code, F, i)

\* Variant of Classify: the early-crash test with && in place of ||.
ClassifyMutantAnd(F, C, i, code) ==
    IF code = 0 THEN Outcome(FALSE, C, code, F, i)
    ELSE IF F.cp[i].graphics_progress < 0 /\ F.cp[i].compute_progress < 0
         THEN Outcome(FALSE, DirtyDeath(C), code, F, i)
    ELSE IF /\ F.cp[i].graphics_progress >= F.cp[i].end_graphics_index
            /\ F.cp[i].compute_progress >= F.cp[i].end_compute_index
         THEN Outcome(FALSE,
                      Restart(C, i, F.cp[i].graphics_progress, F.cp[i].compute_progress),
                      code, F, i)
         ELSE Outcome(TRUE,
                      Restart(C, i, F.cp[i].graphics_progress, F.cp[i].compute_progress),
                      code, F, i)

\* From "if (code == 0)" on: F is the state after the flush, C after the
\* handles were closed, code the exit code read.
Classify(F, C, i, code) ==
    IF code = 0 THEN Outcome(FALSE, C, code, F, i)
    ELSE IF F.cp[i].graphics_progress < 0 \/ F.cp[i].compute_progress < 0
         THEN Outcome(FALSE, DirtyDeath(C), code, F, i)
    ELSE IF /\ F.cp[i].graphics_progress >= F.cp[i].end_graphics_index
            /\ F.cp[i].compute_progress >= F.cp[i].end_compute_index
         THEN Outcome(FALSE,
                      Restart(C, i, F.cp[i].graphics_progress, F.cp[i].compute_progress),
                      code, F, i)
         ELSE Outcome(TRUE,
                      Restart(C, i, F.cp[i].graphics_progress, F.cp[i].compute_progress),
                      code, F, i)

Reap(F, i) ==
    Classify(F, CloseHandles(F, i), i, IF F.cp[i].process THEN F.worker[i].code ELSE 0)

\* [ret |-> the return value, M |-> the state after the call, code |-> the exit
\*  code read, lost |-> what was unread in the pipe when it was closed,
\*  gp, cp |-> graphics_progress and compute_progress after the flush]
ProcessShutdown(M, i) == CHOOSE s \in {Reap(F, i) : F \in {Flush(M, i)}} : TRUE

\* ----------------------------------------- send_faulty_modules_and_close
\* unordered_set iterates in an order of its own: `order` lists all hashes,
\* and those in the set are written in that order, one "%llx\n" line each.
Orders == {o \in [1..NumHashes -> Hashes] : \A a, b \in 1..NumHashes : o[a] = o[b] => a = b}

\* Variant of SendFaultyModules: stdin is closed with nothing written.
SendFaultyModulesMutantNone(set, order) == <<>>

RECURSIVE SendFaultyModules(_, _)
SendFaultyModules(set, order) ==
    IF order = <<>> THEN <<>>
    ELSE (IF Head(order) \in set THEN <<FormatHex(Head(order)) \o <<"\n">>>> ELSE <<>>)
         \o SendFaultyModules(set, Tail(order))

\* ---------------------------------- ProcessProgress::start_child_process
\* Variant of NothingToDo: the empty-range test is left out.
NothingToDoMutantNever(r) == FALSE

\* "Nothing to do.": both ranges of the slot are empty.
NothingToDo(r) ==
    /\ r.start_graphics_index >= r.end_graphics_index
    /\ r.start_compute_index >= r.end_compute_index

\* Variant of StartChildProcess: the progress markers are not reset.
StartChildProcessMutantKeepProgress(M, i, order) ==
    LET R == M
        r == R.cp[i]
    IN  IF NothingToDo(r)
        THEN R    \* no process is created
        ELSE [R EXCEPT
                !.cp[i].process = TRUE,
                !.cp[i].crash_file_handle = TRUE,
                !.cp[i].pipe_event = TRUE,
                !.cp[i].io_pending = TRUE,
                !.active = @ + 1,
                !.tally.spawns = @ + 1,
                !.tally.open[i] = [process |-> @.process + 1, pipe |-> @.pipe + 1,
                                   event |-> @.event + 1, timer |-> @.timer],
                !.tally.crash_parsed[i] = FALSE,
                !.pipe[i] = <<>>,
                !.worker[i] =
                    [NoWorker EXCEPT
                        !.state = "startup",
                        !.stdin = SendFaultyModules(R.faulty, order),
                        !.given = R.faulty,
                        !.start_graphics_index = r.start_graphics_index,
                        !.end_graphics_index = r.end_graphics_index,
                        !.start_compute_index = r.start_compute_index,
                        !.end_compute_index = r.end_compute_index]]

StartChildProcess(M, i, order) ==
    LET R == [M EXCEPT !.cp[i].graphics_progress = -1,
                       !.cp[i].compute_progress = -1]
        r == R.cp[i]
    IN  IF NothingToDo(r)
        THEN R    \* no process is created
        ELSE [R EXCEPT
                !.cp[i].process = TRUE,
                !.cp[i].crash_file_handle = TRUE,
                !.cp[i].pipe_event = TRUE,
                !.cp[i].io_pending = TRUE,
                !.active = @ + 1,
                !.tally.spawns = @ + 1,
                !.tally.open[i] = [process |-> @.process + 1, pipe |-> @.pipe + 1,
                                   event |-> @.event + 1, timer |-> @.timer],
                !.tally.crash_parsed[i] = FALSE,
                !.pipe[i] = <<>>,
                !.worker[i] =
                    [NoWorker EXCEPT
                        !.state = "startup",
                        !.stdin = SendFaultyModules(R.faulty, order),
                        !.given = R.faulty,
                        !.start_graphics_index = r.start_graphics_index,
                        !.end_graphics_index = r.end_graphics_index,
                        !.start_compute_index = r.start_compute_index,
                        !.end_compute_index = r.end_compute_index]]

\* ------------------------------------------------------ run_slave_process
\* The stdin loop: a line that reads as 0 ends it, every other line is masked.
RECURSIVE ReadBlacklist(_)
ReadBlacklist(lines) ==
    IF lines = <<>> THEN {}
    ELSE LET hash == Strtoull16(Head(lines)) IN
         IF hash = 0 THEN {} ELSE {hash} \cup ReadBlacklist(Tail(lines))

\* ----------------------------------------------- run_master_process: setup
NewControlBlock(attached) ==
    [attached |-> attached, banned_modules |-> 0, clean_process_deaths |-> 0,
     dirty_process_deaths |-> 0, progress_started |-> 0, progress_complete |-> 0]

\* The job object before run_master_process has touched it.  handle is
\* Global::job_handle ("none" before CreateJobObjectA, then "open", "null" or
\* "closed"), limit is JOB_OBJECT_LIMIT_KILL_ON_JOB_CLOSE, proc and member are
\* what the system knows of each slot's process, assigned is the value
\* AssignProcessToJobObject returned for it, outside is the history "its
\* main thread ran while it was in no job".
NoJob(P) ==
    [pc |-> "off", slot |-> 0, handle |-> "none", limit |-> FALSE, spawns |-> 0,
     proc |-> [i \in 0..(P - 1) |-> "none"],
     member |-> [i \in 0..(P - 1) |-> FALSE],
     assigned |-> [i \in 0..(P - 1) |-> FALSE],
     outside |-> [i \in 0..(P - 1) |-> FALSE]]

\* The history at the start: no process was created, no exit code read, no
\* progress_complete stored; open counts, per slot, the handles of each kind
\* that were created for the slot's record and are not closed yet;
\* crash_parsed tells whether a CRASH of the slot's current process was parsed.
NewTally(P) ==
    [spawns |-> 0, codes |-> {}, completes |-> 0,
     open |-> [i \in 0..(P - 1) |-> [process |-> 0, pipe |-> 0, event |-> 0, timer |-> 0]],
     crash_parsed |-> [i \in 0..(P - 1) |-> FALSE]]

InitWith(pc, P, ng, nc, attached) ==
    /\ mpc = pc
    /\ processes = P
    /\ num_graphics_pipelines = ng
    /\ num_compute_pipelines = nc
    /\ next_i = 0
    /\ child_processes = [i \in 0..(P - 1) |-> NewProcessProgress(i)]
    /\ faulty_spirv_modules = {}
    /\ active_processes = 0
    /\ control_block = NewControlBlock(attached)
    /\ worker = [i \in 0..(P - 1) |-> NoWorker]
    /\ pipe = [i \in 0..(P - 1) |-> <<>>]
    /\ crashes = 0
    /\ reported = {}
    /\ tally = NewTally(P)
    /\ job = NoJob(P)
    /\ vpc = NoVPC
    /\ last = Idle

Init ==
    \E P \in 1..MaxProcs, ng \in 0..MaxGraphics, nc \in 0..MaxCompute,
       attached \in BOOLEAN :
        InitWith("start", P, ng, nc, attached)

\* The four assignments at the head of the spawn loop's body.
AssignRange(cp, i) ==
    [cp EXCEPT
        ![i].start_graphics_index = PartitionBound(i, num_graphics_pipelines, processes),
        ![i].end_graphics_index = PartitionBound(i + 1, num_graphics_pipelines, processes),
        ![i].start_compute_index = PartitionBound(i, num_compute_pipelines, processes),
        ![i].end_compute_index = PartitionBound(i + 1, num_compute_pipelines, processes),
        ![i].index = i]

\* The master's variables take the values of M.
Commit(M) ==
    /\ child_processes' = M.cp
    /\ faulty_spirv_modules' = M.faulty
    /\ active_processes' = M.active
    /\ control_block' = M.cb
    /\ worker' = M.worker
    /\ pipe' = M.pipe
    /\ reported' = M.reported
    /\ tally' = M.tally

Fixed == UNCHANGED <<processes, num_graphics_pipelines, num_compute_pipelines, job, vpc>>

\* Variant of MasterStart: progress_started is not stored.
MasterStartMutantNoStore ==
    /\ mpc = "start"
    /\ mpc' = "spawn"
    /\ active_processes' = 0
    /\ last' = [Idle EXCEPT !.op = "start"]
    /\ Fixed
    /\ UNCHANGED <<next_i, child_processes, faulty_spirv_modules, worker, pipe,
                   crashes, reported, tally, control_block>>

\* progress_started is stored, active_processes cleared.
MasterStart ==
    /\ mpc = "start"
    /\ mpc' = "spawn"
    /\ control_block' = [control_block EXCEPT
                            !.progress_started = IF control_block.attached THEN 1 ELSE @]
    /\ active_processes' = 0
    /\ last' = [Idle EXCEPT !.op = "start"]
    /\ Fixed
    /\ UNCHANGED <<next_i, child_processes, faulty_spirv_modules, worker, pipe,
                   crashes, reported, tally>>

Spawned(M) ==
    /\ Commit(M)
    /\ last' = [Idle EXCEPT !.op = "spawn", !.slot = next_i, !.spawned = M.cp[next_i].process]

\* One iteration of the spawn loop.
MasterSpawn ==
    /\ mpc = "spawn"
    /\ next_i < processes
    /\ \E order \in Orders :
        \E M2 \in {StartChildProcess(
                       [Master EXCEPT !.cp = AssignRange(child_processes, next_i)],
                       next_i, order)} :
            Spawned(M2)
    /\ next_i' = next_i + 1
    /\ mpc' = IF next_i + 1 = processes THEN "loop" ELSE "spawn"
    /\ Fixed
    /\ UNCHANGED crashes

\* ------------------------------------------ run_master_process: the loop
\* wait_handles: per slot, in slot order, the pipe event, the process and
\* the timer, each if not null.
HandlesOf(i) ==
    (IF child_processes[i].pipe_event THEN <<<<i, "pipe">>>> ELSE <<>>)
    \o (IF child_processes[i].process THEN <<<<i, "process">>>> ELSE <<>>)
    \o (IF child_processes[i].timer_handle # "null" THEN <<<<i, "timer">>>> ELSE <<>>)

RECURSIVE HandlesFrom(_)
HandlesFrom(i) == IF i >= processes THEN <<>> ELSE HandlesOf(i) \o HandlesFrom(i + 1)

WaitHandles == HandlesFrom(0)

Signaled(h) ==
    LET i == h[1] r == child_processes[i] IN
    IF h[2] = "pipe" THEN r.io_pending /\ (pipe[i] # <<>> \/ worker[i].state = "exited")
    ELSE IF h[2] = "process" THEN worker[i].state = "exited"
    ELSE r.timer_handle = "signaled"

\* WaitForMultipleObjects(..., FALSE, INFINITE) returns the lowest index whose
\* object is signaled; it blocks while none is.
SomeSignaled == \E k \in 1..Len(WaitHandles) : Signaled(WaitHandles[k])

Woken ==
    LET k == CHOOSE k \in 1..Len(WaitHandles) :
                /\ Signaled(WaitHandles[k])
                /\ \A j \in 1..(k - 1) : ~Signaled(WaitHandles[j])
    IN  WaitHandles[k]

InLoop == mpc = "loop" /\ active_processes # 0 /\ SomeSignaled

\* What process_shutdown decided, for the history variable.  M0 is the state
\* in which the handler found the child, M2 the state it leaves.
Decision(op, i, s, M0, M2) ==
    [op |-> op, slot |-> i, code |-> s.code, respawn |-> s.ret,
     spawned |-> M2.cp[i].process, gp |-> s.gp, cp |-> s.cp, lost |-> s.lost,
     unread |-> Len(M0.pipe[i]), written |-> M0.worker[i].wrote,
     stage |-> M0.worker[i].state, hpc |-> M0.worker[i].hpc,
     at_g |-> M0.worker[i].current_graphics_index,
     at_c |-> M0.worker[i].current_compute_index,
     before |-> M0.cp[i],
     dirty0 |-> M0.cb.dirty_process_deaths,
     clean0 |-> M0.cb.clean_process_deaths]

\* if (process_itr->process_shutdown() && !process_itr->start_child_process())
Decided(op, i, s, M0, M2) == Commit(M2) /\ last' = Decision(op, i, s, M0, M2)

RespawnIfAsked(op, i, s, M0, order) ==
    \E M2 \in {IF s.ret THEN StartChildProcess(s.M, i, order) ELSE s.M} :
        Decided(op, i, s, M0, M2)

ShutdownAndRespawn(op, M0, M, i) ==
    \E s \in {ProcessShutdown(M, i)}, order \in Orders :
        RespawnIfAsked(op, i, s, M0, order)

\* The pipe event of slot i is returned: read a command, queue a new read.
MasterPipeEvent(i) ==
    /\ InLoop
    /\ Woken = <<i, "pipe">>
    /\ \E M2 \in {ProcessOnce(Master, i).M} : Commit(M2)
    /\ last' = [Idle EXCEPT !.op = "once", !.slot = i, !.before = child_processes[i]]
    /\ Fixed
    /\ UNCHANGED <<mpc, next_i, crashes>>

\* The process handle of slot i is returned: the process finished.
MasterProcessExit(i) ==
    /\ InLoop
    /\ Woken = <<i, "process">>
    /\ \E M0 \in {Master} : ShutdownAndRespawn("exit", M0, M0, i)
    /\ Fixed
    /\ UNCHANGED <<mpc, next_i, crashes>>

\* TerminateProcess(process, 3) on a child that still runs.
TerminateProcess(M, i) == [M EXCEPT !.worker[i] = Exited(M.worker[i], 3)]

\* return EXIT_FAILURE out of the loop: the master ends, its job object is
\* closed with it and every child in the job is killed.
Abort(i) ==
    /\ mpc' = "failed"
    /\ worker' = [j \in Slots |-> NoWorker]
    /\ pipe' = [j \in Slots |-> <<>>]
    /\ last' = [Idle EXCEPT !.op = "abort", !.slot = i]
    /\ UNCHANGED <<child_processes, faulty_spirv_modules, active_processes,
                   control_block, reported, tally>>

\* The child found at TerminateProcess is `a`: still running, it is terminated
\* and cleaned up; already gone, TerminateProcess fails.
TerminateAndCleanUp(M0, i) ==
    IF M0.worker[i].state = "exited"
    THEN Abort(i)
    ELSE /\ \E M \in {TerminateProcess(M0, i)} : ShutdownAndRespawn("timeout", M0, M, i)
         /\ UNCHANGED mpc

\* The timer of slot i is returned.  The child keeps running until
\* TerminateProcess is called: it may have written more or have left.
MasterTimeout(i) ==
    /\ InLoop
    /\ Woken = <<i, "timer">>
    /\ \E a \in Ahead(worker[i], pipe[i]) :
        \E M0 \in {[Master EXCEPT !.worker[i] = a.w, !.pipe[i] = a.p]} :
            TerminateAndCleanUp(M0, i)
    /\ Fixed
    /\ UNCHANGED <<next_i, crashes>>

\* The loop is left: progress_complete is stored.
MasterFinish ==
    /\ mpc = "loop"
    /\ active_processes = 0
    /\ mpc' = "done"
    /\ control_block' = [control_block EXCEPT
                            !.progress_complete = IF control_block.attached THEN 1 ELSE @]
    /\ tally' = [tally EXCEPT !.completes = IF control_block.attached THEN @ + 1 ELSE @]
    /\ last' = [Idle EXCEPT !.op = "finish"]
    /\ Fixed
    /\ UNCHANGED <<next_i, child_processes, faulty_spirv_modules, active_processes,
                   worker, pipe, crashes, reported>>

\* ------------------------------------------------------------ the worker

WorkerStep(i, w) ==
    /\ worker' = [worker EXCEPT ![i] = w]
    /\ last' = Idle
    /\ Fixed
    /\ UNCHANGED <<mpc, next_i, child_processes, faulty_spirv_modules,
                   active_processes, control_block, reported, tally>>

\* The engine's counters (current_graphics_index, current_compute_index of
\* the per-thread data) start at the head of the range given on the command
\* line.
EngineStart(w) ==
    [w EXCEPT !.state = "replay",
              !.current_graphics_index = w.start_graphics_index,
              !.current_compute_index = w.start_compute_index]

\* run_slave_process up to run_normal_process: stdin is read and the listed
\* modules are masked, then the engine starts.
WorkerStart(i) ==
    /\ worker[i].state = "startup"
    /\ WorkerStep(i, [EngineStart(worker[i]) EXCEPT
                        !.masked = ReadBlacklist(worker[i].stdin),
                        !.stdin = <<>>])
    /\ UNCHANGED <<pipe, crashes>>

\* The engine replays one more pipeline of its range: the compute pipelines
\* first, then the graphics pipelines (the order of the archive's document).
WorkerReplay(i) ==
    /\ worker[i].state = "replay"
    /\ \/ /\ worker[i].current_compute_index < worker[i].end_compute_index
          /\ WorkerStep(i, [worker[i] EXCEPT !.current_compute_index = @ + 1])
       \/ /\ worker[i].current_compute_index >= worker[i].end_compute_index
          /\ worker[i].current_graphics_index < worker[i].end_graphics_index
          /\ WorkerStep(i, [worker[i] EXCEPT !.current_graphics_index = @ + 1])
    /\ UNCHANGED <<pipe, crashes>>

\* run_normal_process returns 0 and so does run_slave_process.
WorkerExit(i) ==
    /\ worker[i].state = "replay"
    /\ worker[i].current_compute_index >= worker[i].end_compute_index
    /\ worker[i].current_graphics_index >= worker[i].end_graphics_index
    /\ WorkerStep(i, Exited(worker[i], 0))
    /\ UNCHANGED <<pipe, crashes>>

\* The process ends with a failure code and without a message: open_shm or
\* run_normal_process failed (EXIT_FAILURE), or it died where no handler is
\* installed.
WorkerFail(i) ==
    /\ worker[i].state \in {"startup", "replay"}
    /\ WorkerStep(i, Exited(worker[i], 1))
    /\ UNCHANGED <<pipe, crashes>>

\* Sequences of distinct hashes, at most MaxFailed long.
FailedLists ==
    {<<>>} \cup UNION {{f \in [1..n -> Hashes] : \A a, b \in 1..n : f[a] = f[b] => a = b}
                        : n \in 1..MaxFailed}

\* An unhandled exception or abort() during the replay enters crash_handler.
WorkerCrash(i) ==
    /\ worker[i].state = "replay"
    /\ crashes < MaxCrashes
    /\ crashes' = crashes + 1
    /\ \E failed \in FailedLists :
        WorkerStep(i, [worker[i] EXCEPT !.state = "handler", !.hpc = 1,
                                        !.failed_module_hashes = failed])
    /\ UNCHANGED pipe

\* crash_handler writes its next message (write_all).  The pipe is a queue
\* without a bound here: that FlushFileBuffers holds the writer back until
\* the master has read is left out, which only adds interleavings.
WorkerWrite(i) ==
    /\ worker[i].state = "handler"
    /\ pipe' = [pipe EXCEPT ![i] = Append(@, NextMessage(worker[i]))]
    /\ WorkerStep(i, AfterWrite(worker[i]))
    /\ UNCHANGED crashes

\* emergency_teardown returns and ExitProcess(2) is reached.  It may never
\* happen: the teardown can hang.
WorkerTeardown(i) ==
    /\ worker[i].state = "teardown"
    /\ WorkerStep(i, Exited(worker[i], 2))
    /\ UNCHANGED <<pipe, crashes>>

\* One second after CRASH was parsed the waitable timer becomes signaled.
TimerExpire(i) ==
    /\ child_processes[i].timer_handle = "armed"
    /\ child_processes' = [child_processes EXCEPT ![i].timer_handle = "signaled"]
    /\ last' = Idle
    /\ Fixed
    /\ UNCHANGED <<mpc, next_i, faulty_spirv_modules, active_processes, control_block,
                   worker, pipe, crashes, reported, tally>>

\* ------------------------------------------------------ the specification
Next ==
    \/ MasterStart
    \/ MasterSpawn
    \/ MasterFinish
    \/ \E i \in Slots : MasterPipeEvent(i)
    \/ \E i \in Slots : MasterProcessExit(i)
    \/ \E i \in Slots : MasterTimeout(i)
    \/ \E i \in Slots : WorkerStart(i)
    \/ \E i \in Slots : WorkerReplay(i)
    \/ \E i \in Slots : WorkerExit(i)
    \/ \E i \in Slots : WorkerFail(i)
    \/ \E i \in Slots : WorkerCrash(i)
    \/ \E i \in Slots : WorkerWrite(i)
    \/ \E i \in Slots : WorkerTeardown(i)
    \/ \E i \in Slots : TimerExpire(i)

Spec == Init /\ [][Next]_vars

\* ----------------------------------------- the partition on its own
\* Pipeline counts the partition is tried on: small ones, and counts whose
\* product with a slot number does not fit in 32 bits.
PartitionCounts == {0, 1, 2, 3, 7, 1431655766, 2147483647}

InitPartition ==
    \E P \in 1..PartMaxProcs, ng \in PartitionCounts, nc \in PartitionCounts :
        InitWith("partition", P, ng, nc, FALSE)

\* One turn of the spawn loop, up to "progress.index = i".
PartitionSlot ==
    /\ mpc = "partition"
    /\ next_i < processes
    /\ child_processes' = AssignRange(child_processes, next_i)
    /\ next_i' = next_i + 1
    /\ Fixed
    /\ UNCHANGED <<mpc, faulty_spirv_modules, active_processes, control_block,
                   worker, pipe, crashes, reported, tally, last>>

NextPartition == PartitionSlot

SpecPartition == InitPartition /\ [][NextPartition]_vars

\* ------------------------------------------------------- the job object
\* The supervisor's use of the job object, with the outcomes the system
\* calls can have: run_master_process creates the job and sets its limit,
\* start_child_process creates a child suspended, assigns it and resumes it.
\* The master can die at any point; the pipes and the replay take no part.
MaxJobSpawns == 3

InitJob ==
    \E P \in 1..MaxProcs :
        /\ mpc = "job"
        /\ processes = P
        /\ num_graphics_pipelines = 0
        /\ num_compute_pipelines = 0
        /\ next_i = 0
        /\ child_processes = [i \in 0..(P - 1) |-> NewProcessProgress(i)]
        /\ faulty_spirv_modules = {}
        /\ active_processes = 0
        /\ control_block = NewControlBlock(FALSE)
        /\ worker = [i \in 0..(P - 1) |-> NoWorker]
        /\ pipe = [i \in 0..(P - 1) |-> <<>>]
        /\ crashes = 0
        /\ reported = {}
        /\ tally = NewTally(1)
        /\ job = [NoJob(P) EXCEPT !.pc = "create_job"]
        /\ vpc = NoVPC
        /\ last = Idle

JobStep(j) ==
    /\ job' = j
    /\ UNCHANGED <<mpc, processes, num_graphics_pipelines, num_compute_pipelines,
                   next_i, child_processes, faulty_spirv_modules, active_processes,
                   control_block, worker, pipe, crashes, reported, tally, vpc, last>>

Alive(st) == st \in {"suspended", "running"}

\* Global::job_handle = CreateJobObjectA(nullptr, nullptr); a failure is
\* "not fatal, we just won't bother with this".
CreateJobObject ==
    /\ job.pc = "create_job"
    /\ \E ok \in BOOLEAN :
        JobStep([job EXCEPT !.handle = IF ok THEN "open" ELSE "null",
                            !.pc = "set_information"])

\* if (Global::job_handle) SetInformationJobObject(...KILL_ON_JOB_CLOSE...);
\* a failure is "again, not fatal".
SetInformationJobObject ==
    /\ job.pc = "set_information"
    /\ \E ok \in BOOLEAN :
        JobStep([job EXCEPT !.limit = job.handle = "open" /\ ok,
                            !.pc = "idle"])

\* Variant of CreateProcessA: without CREATE_SUSPENDED the main thread runs
\* from the start.
CreateProcessAMutantRunning(j, i) ==
    [j EXCEPT !.proc[i] = "running", !.member[i] = FALSE, !.assigned[i] = FALSE,
              !.outside[i] = TRUE,
              !.spawns = @ + 1, !.slot = i, !.pc = "assign"]

\* CreateProcessA(... CREATE_NO_WINDOW | CREATE_SUSPENDED ...): the new
\* process is in no job of the master's making and its main thread waits.
CreateProcessA(j, i) ==
    [j EXCEPT !.proc[i] = "suspended", !.member[i] = FALSE, !.assigned[i] = FALSE,
              !.outside[i] = FALSE,
              !.spawns = @ + 1, !.slot = i, !.pc = "assign"]

\* start_child_process for a slot that has no live process (at first, or
\* again after its child has left), up to CreateProcessA.
JobCreateProcess(i) ==
    /\ job.pc = "idle"
    /\ job.proc[i] \in {"none", "exited"}
    /\ job.spawns < MaxJobSpawns
    /\ JobStep(CreateProcessA(job, i))

\* if (Global::job_handle && !AssignProcessToJobObject(...)): "This isn't
\* really fatal, just continue on."
AssignProcessToJobObject ==
    /\ job.pc = "assign"
    /\ \E ok \in BOOLEAN :
        JobStep([job EXCEPT !.member[job.slot] = job.handle = "open" /\ ok,
                            !.assigned[job.slot] = job.handle = "open" /\ ok,
                            !.pc = "resume"])

\* ResumeThread(pi.hThread): the main thread of the child runs.
ResumeThread ==
    /\ job.pc = "resume"
    /\ JobStep([job EXCEPT !.proc[job.slot] = "running",
                           !.outside[job.slot] = ~job.member[job.slot],
                           !.pc = "idle"])

\* A running child leaves by itself.
JobWorkerExit(i) ==
    /\ job.proc[i] = "running"
    /\ JobStep([job EXCEPT !.proc[i] = "exited"])

\* Variant of CloseJob: closing the job ends nothing.
CloseJobMutantKeep(j) == [j EXCEPT !.handle = IF @ = "open" THEN "closed" ELSE @]

\* The last handle of the job goes away: with KILL_ON_JOB_CLOSE set, every
\* process of the job that still lives is ended.
CloseJob(j) ==
    [j EXCEPT !.handle = IF @ = "open" THEN "closed" ELSE @,
              !.proc = [i \in DOMAIN @ |->
                            IF j.handle = "open" /\ j.limit /\ j.member[i] /\ Alive(@[i])
                            THEN "killed" ELSE @[i]]]

\* The master process dies, wherever it is: its handles are closed.
JobMasterDies ==
    /\ job.pc \notin {"off", "dead", "returned"}
    /\ JobStep([CloseJob(job) EXCEPT !.pc = "dead"])

\* The wait loop is over (no child is left): CloseHandle(Global::job_handle)
\* and run_master_process returns.
JobMasterReturns ==
    /\ job.pc = "idle"
    /\ \A i \in Slots : ~Alive(job.proc[i])
    /\ JobStep([CloseJob(job) EXCEPT !.pc = "returned"])

NextJob ==
    \/ CreateJobObject
    \/ SetInformationJobObject
    \/ \E i \in Slots : JobCreateProcess(i)
    \/ AssignProcessToJobObject
    \/ ResumeThread
    \/ \E i \in Slots : JobWorkerExit(i)
    \/ JobMasterDies
    \/ JobMasterReturns

SpecJob == InitJob /\ [][NextJob]_vars

\* ------------------------------------------------------ VPC::Hashing
\* The Hasher takes typed tokens in order; two hashes are equal exactly when
\* the token sequences are, so a hash is kept as the sequence it was made of.
U32(v) == <<<<"u32", v>>>>
U64(v) == <<<<"u64", v>>>>
S32(v) == <<<<"s32", v>>>>
F32(v) == <<<<"f32", v>>>>
String(v) == <<<<"string", v>>>>
Data(bytes, size) == <<<<"data", <<bytes, size>>>>>>

RECURSIVE Flatten(_)
Flatten(ss) == IF ss = <<>> THEN <<>> ELSE Head(ss) \o Flatten(Tail(ss))

\* A for loop over 0..count-1 that feeds Body(i) for each element.
Loop(count, Body(_)) == Flatten([i \in 1..count |-> Body(i)])

\* The seven registries of a StateRecorder, and VK_NULL_HANDLE.
Kinds == {"sampler", "descriptor_set_layout", "pipeline_layout", "shader_module",
          "render_pass", "compute_pipeline", "graphics_pipeline"}
NullHandle == 0

\* VK_DESCRIPTOR_TYPE_SAMPLER and VK_DESCRIPTOR_TYPE_COMBINED_IMAGE_SAMPLER
SamplerTypes == {0, 1}

\* throw runtime_error("Handle is not registered.")
UnknownHandle == <<<<"throw", "Handle is not registered.">>>>

\* vector::operator[] past the end: the value read is not defined.
OutOfRange == <<<<"undefined", "vector">>>>

\* Variant of GetHashFor: the index stands in for the hash.
GetHashForMutantIndex(R, k, h) ==
    IF h \notin DOMAIN R.to_index[k] THEN UnknownHandle
    ELSE U32(R.to_index[k][h])

\* StateRecorder::get_hash_for_<kind>
GetHashFor(R, k, h) ==
    IF h \notin DOMAIN R.to_index[k] THEN UnknownHandle
    ELSE IF R.to_index[k][h] + 1 \in DOMAIN R.reg[k]
         THEN R.reg[k][R.to_index[k][h] + 1].hash
         ELSE OutOfRange

\* Hasher::get, or the exception that left the function before it.
Get(tokens) ==
    IF \E n \in DOMAIN tokens : tokens[n] = <<"u64", UnknownHandle>>
    THEN UnknownHandle ELSE tokens

\* The number an enumerator stands for: its place in the enum, from 0.
EnumValue(order, s) == (CHOOSE n \in DOMAIN order : order[n] = s) - 1

\* The values of VkDynamicState and VkBlendFactor, in the order of the enums.
DynamicStateOrder ==
    <<"VIEWPORT", "SCISSOR", "LINE_WIDTH", "DEPTH_BIAS", "BLEND_CONSTANTS",
      "DEPTH_BOUNDS", "STENCIL_COMPARE_MASK", "STENCIL_WRITE_MASK", "STENCIL_REFERENCE">>
DynamicStates == {DynamicStateOrder[n] : n \in DOMAIN DynamicStateOrder}

BlendFactorOrder ==
    <<"ZERO", "ONE", "SRC_COLOR", "ONE_MINUS_SRC_COLOR", "DST_COLOR",
      "ONE_MINUS_DST_COLOR", "SRC_ALPHA", "ONE_MINUS_SRC_ALPHA", "DST_ALPHA",
      "ONE_MINUS_DST_ALPHA", "CONSTANT_COLOR", "ONE_MINUS_CONSTANT_COLOR",
      "CONSTANT_ALPHA", "ONE_MINUS_CONSTANT_ALPHA", "SRC_ALPHA_SATURATE">>

hash_specialization_info(spec) ==
    Data(spec.pData, spec.dataSize)
    \o U32(spec.dataSize)
    \o U32(spec.mapEntryCount)
    \o Loop(spec.mapEntryCount,
            LAMBDA i : U32(spec.pMapEntries[i].offset) \o U32(spec.pMapEntries[i].size)
                       \o U32(spec.pMapEntries[i].constantID))

\* Whether pDynamicState lists the state s (the switch in the loop).
Declares(info, s) ==
    /\ info.pDynamicState.present
    /\ \E n \in 1..info.pDynamicState.dynamicStateCount :
            info.pDynamicState.pDynamicStates[n] = s

HashDynamicState(info) ==
    IF info.pDynamicState.present
    THEN U32(info.pDynamicState.dynamicStateCount)
         \o U32(info.pDynamicState.flags)
         \o Loop(info.pDynamicState.dynamicStateCount,
                 LAMBDA i : U32(EnumValue(DynamicStateOrder,
                                          info.pDynamicState.pDynamicStates[i])))
    ELSE U32(0)

HashDepthStencilState(info) ==
    LET ds == info.pDepthStencilState
    IN  IF ds.present
        THEN U32(ds.flags) \o U32(ds.depthBoundsTestEnable) \o U32(ds.depthCompareOp)
             \o U32(ds.depthTestEnable) \o U32(ds.depthWriteEnable)
             \o U32(ds.front.compareOp) \o U32(ds.front.depthFailOp)
             \o U32(ds.front.failOp) \o U32(ds.front.passOp)
             \o U32(ds.back.compareOp) \o U32(ds.back.depthFailOp)
             \o U32(ds.back.failOp) \o U32(ds.back.passOp)
             \o U32(ds.stencilTestEnable)
             \o (IF ~Declares(info, "DEPTH_BOUNDS") /\ ds.depthBoundsTestEnable # 0
                 THEN F32(ds.minDepthBounds) \o F32(ds.maxDepthBounds) ELSE <<>>)
             \o (IF ds.stencilTestEnable # 0
                 THEN (IF ~Declares(info, "STENCIL_COMPARE_MASK")
                       THEN U32(ds.front.compareMask) \o U32(ds.back.compareMask)
                       ELSE <<>>)
                      \o (IF ~Declares(info, "STENCIL_REFERENCE")
                          THEN U32(ds.front.reference) \o U32(ds.back.reference)
                          ELSE <<>>)
                      \o (IF ~Declares(info, "STENCIL_WRITE_MASK")
                          THEN U32(ds.front.writeMask) \o U32(ds.back.writeMask)
                          ELSE <<>>)
                 ELSE <<>>)
        ELSE U32(0)

HashInputAssemblyState(info) ==
    LET ia == info.pInputAssemblyState
    IN  IF ia.present
        THEN U32(ia.flags) \o U32(ia.primitiveRestartEnable) \o U32(ia.topology)
        ELSE U32(0)

HashRasterizationState(info) ==
    LET rs == info.pRasterizationState
    IN  IF rs.present
        THEN U32(rs.flags) \o U32(rs.cullMode) \o U32(rs.depthClampEnable)
             \o U32(rs.frontFace) \o U32(rs.rasterizerDiscardEnable)
             \o U32(rs.polygonMode) \o U32(rs.depthBiasEnable)
             \o (IF rs.depthBiasEnable # 0 /\ ~Declares(info, "DEPTH_BIAS")
                 THEN F32(rs.depthBiasClamp) \o F32(rs.depthBiasSlopeFactor)
                      \o F32(rs.depthBiasConstantFactor)
                 ELSE <<>>)
             \o (IF ~Declares(info, "LINE_WIDTH") THEN F32(rs.lineWidth) ELSE <<>>)
        ELSE U32(0)

\* (no token is fed for a missing multisample block)
HashMultisampleState(info) ==
    LET ms == info.pMultisampleState
    IN  IF ms.present
        THEN U32(ms.flags) \o U32(ms.alphaToCoverageEnable) \o U32(ms.alphaToOneEnable)
             \o F32(ms.minSampleShading) \o U32(ms.rasterizationSamples)
             \o U32(ms.sampleShadingEnable)
             \o (IF ms.pSampleMask # <<>>
                 THEN Loop((ms.rasterizationSamples + 31) \div 32,
                           LAMBDA i : U32(ms.pSampleMask[i]))
                 ELSE U32(0))
        ELSE <<>>

\* Variant of HashViewports: the rectangles are never fed.
HashViewportsMutantNever(info) == <<>>

\* The viewport rectangles, unless VK_DYNAMIC_STATE_VIEWPORT is declared.
HashViewports(info) ==
    IF ~Declares(info, "VIEWPORT")
    THEN Loop(info.pViewportState.viewportCount,
              LAMBDA i : F32(info.pViewportState.pViewports[i].x)
                         \o F32(info.pViewportState.pViewports[i].y)
                         \o F32(info.pViewportState.pViewports[i].width)
                         \o F32(info.pViewportState.pViewports[i].height)
                         \o F32(info.pViewportState.pViewports[i].minDepth)
                         \o F32(info.pViewportState.pViewports[i].maxDepth))
    ELSE <<>>

\* Variant of HashScissors: the rectangles are fed whatever is declared.
HashScissorsMutantAlways(info) ==
    Loop(info.pViewportState.scissorCount,
         LAMBDA i : S32(info.pViewportState.pScissors[i].offset.x)
                    \o S32(info.pViewportState.pScissors[i].offset.y)
                    \o U32(info.pViewportState.pScissors[i].extent.width)
                    \o U32(info.pViewportState.pScissors[i].extent.height))

HashScissors(info) ==
    IF ~Declares(info, "SCISSOR")
    THEN Loop(info.pViewportState.scissorCount,
              LAMBDA i : S32(info.pViewportState.pScissors[i].offset.x)
                         \o S32(info.pViewportState.pScissors[i].offset.y)
                         \o U32(info.pViewportState.pScissors[i].extent.width)
                         \o U32(info.pViewportState.pScissors[i].extent.height))
    ELSE <<>>

HashViewportState(info) ==
    LET vp == info.pViewportState
    IN  IF vp.present
        THEN U32(vp.flags) \o U32(vp.scissorCount) \o U32(vp.viewportCount)
             \o HashScissors(info) \o HashViewports(info)
        ELSE U32(0)

HashVertexInputState(info) ==
    LET vi == info.pVertexInputState
    IN  IF vi.present
        THEN U32(vi.flags) \o U32(vi.vertexAttributeDescriptionCount)
             \o U32(vi.vertexBindingDescriptionCount)
             \o Loop(vi.vertexAttributeDescriptionCount,
                     LAMBDA i : U32(vi.pVertexAttributeDescriptions[i].offset)
                                \o U32(vi.pVertexAttributeDescriptions[i].binding)
                                \o U32(vi.pVertexAttributeDescriptions[i].format)
                                \o U32(vi.pVertexAttributeDescriptions[i].location))
             \o Loop(vi.vertexBindingDescriptionCount,
                     LAMBDA i : U32(vi.pVertexBindingDescriptions[i].binding)
                                \o U32(vi.pVertexBindingDescriptions[i].inputRate)
                                \o U32(vi.pVertexBindingDescriptions[i].stride))
        ELSE U32(0)

ConstantFactors == {"CONSTANT_ALPHA", "CONSTANT_COLOR"}

\* Variant of NeedBlendConstants: attachments without blendEnable count too.
NeedBlendConstantsMutantAnyAttachment(b) ==
    \E i \in 1..b.attachmentCount :
        {b.pAttachments[i].dstAlphaBlendFactor, b.pAttachments[i].srcAlphaBlendFactor,
         b.pAttachments[i].dstColorBlendFactor, b.pAttachments[i].srcColorBlendFactor}
        \cap ConstantFactors # {}

\* need_blend_constants: an enabled attachment blends with a constant.
NeedBlendConstants(b) ==
    \E i \in 1..b.attachmentCount :
        /\ b.pAttachments[i].blendEnable # 0
        /\ {b.pAttachments[i].dstAlphaBlendFactor, b.pAttachments[i].srcAlphaBlendFactor,
            b.pAttachments[i].dstColorBlendFactor, b.pAttachments[i].srcColorBlendFactor}
           \cap ConstantFactors # {}

HashBlendAttachment(a) ==
    U32(a.blendEnable)
    \o (IF a.blendEnable # 0
        THEN U32(a.colorWriteMask) \o U32(a.alphaBlendOp) \o U32(a.colorBlendOp)
             \o U32(EnumValue(BlendFactorOrder, a.dstAlphaBlendFactor))
             \o U32(EnumValue(BlendFactorOrder, a.srcAlphaBlendFactor))
             \o U32(EnumValue(BlendFactorOrder, a.dstColorBlendFactor))
             \o U32(EnumValue(BlendFactorOrder, a.srcColorBlendFactor))
        ELSE U32(0))

HashColorBlendState(info) ==
    LET b == info.pColorBlendState
    IN  IF b.present
        THEN U32(b.flags) \o U32(b.attachmentCount) \o U32(b.logicOpEnable) \o U32(b.logicOp)
             \o Loop(b.attachmentCount, LAMBDA i : HashBlendAttachment(b.pAttachments[i]))
             \o (IF NeedBlendConstants(b) /\ ~Declares(info, "BLEND_CONSTANTS")
                 THEN Loop(4, LAMBDA i : F32(b.blendConstants[i]))
                 ELSE <<>>)
        ELSE U32(0)

HashTessellationState(info) ==
    LET tess == info.pTessellationState
    IN  IF tess.present THEN U32(tess.flags) \o U32(tess.patchControlPoints) ELSE U32(0)

HashStage(R, stage) ==
    U32(stage.flags) \o String(stage.pName) \o U32(stage.stage)
    \o U64(GetHashFor(R, "shader_module", stage.module))
    \o (IF stage.pSpecializationInfo.present
        THEN hash_specialization_info(stage.pSpecializationInfo)
        ELSE U32(0))

\* Hashing::compute_hash_graphics_pipeline
compute_hash_graphics_pipeline(R, info) ==
    Get(U32(info.flags)
        \o (IF info.basePipelineHandle # NullHandle
            THEN U64(GetHashFor(R, "graphics_pipeline", info.basePipelineHandle))
                 \o S32(info.basePipelineIndex)
            ELSE <<>>)
        \o U64(GetHashFor(R, "pipeline_layout", info.layout))
        \o U64(GetHashFor(R, "render_pass", info.renderPass))
        \o U32(info.subpass)
        \o U32(info.stageCount)
        \o HashDynamicState(info)
        \o HashDepthStencilState(info)
        \o HashInputAssemblyState(info)
        \o HashRasterizationState(info)
        \o HashMultisampleState(info)
        \o HashViewportState(info)
        \o HashVertexInputState(info)
        \o HashColorBlendState(info)
        \o HashTessellationState(info)
        \o Loop(info.stageCount, LAMBDA i : HashStage(R, info.pStages[i])))

\* ------------------------------------------- hashing graphics pipelines
\* Two VkGraphicsPipelineCreateInfo are hashed against one recorder: the
\* second starts as a copy of the first and has fields changed one group at
\* a time, each time being hashed anew.
NoBlock == [present |-> FALSE]

\* A recorder that knows one pipeline layout, one render pass and one
\* shader module under the handle 1.
HashRecorder ==
    [reg |-> [k \in Kinds |->
                IF k \in {"pipeline_layout", "render_pass", "shader_module"}
                THEN <<[hash |-> String(k), info |-> NoBlock]>> ELSE <<>>],
     to_index |-> [k \in Kinds |->
                IF k \in {"pipeline_layout", "render_pass", "shader_module"}
                THEN [h \in {1} |-> 0] ELSE <<>>]]

StencilOpState == [compareOp |-> 1, depthFailOp |-> 2, failOp |-> 3, passOp |-> 4,
                   compareMask |-> 30, reference |-> 31, writeMask |-> 32]

\* A create-info with the dynamic states D declared, and the three tests
\* (0 or 1) and the blend factor as given; f32 fields hold stand-ins for bit patterns.
GraphicsPipelineInfo(D, bounds_test, stencil_test, bias, factor) ==
    [flags |-> 0, basePipelineHandle |-> NullHandle, basePipelineIndex |-> -1,
     layout |-> 1, renderPass |-> 1, subpass |-> 0, stageCount |-> 1,
     pStages |-> <<[flags |-> 0, pName |-> "main", stage |-> 1, module |-> 1,
                    pSpecializationInfo |-> NoBlock]>>,
     pDynamicState |->
        IF D = {} THEN NoBlock
        ELSE [present |-> TRUE, flags |-> 0, dynamicStateCount |-> Cardinality(D),
              pDynamicStates |-> SelectSeq(DynamicStateOrder, LAMBDA s : s \in D)],
     pDepthStencilState |->
        [present |-> TRUE, flags |-> 0, depthBoundsTestEnable |-> bounds_test,
         depthCompareOp |-> 1, depthTestEnable |-> 1, depthWriteEnable |-> 1,
         front |-> StencilOpState, back |-> StencilOpState,
         stencilTestEnable |-> stencil_test, minDepthBounds |-> 20, maxDepthBounds |-> 21],
     pInputAssemblyState |->
        [present |-> TRUE, flags |-> 0, primitiveRestartEnable |-> 0, topology |-> 3],
     pRasterizationState |->
        [present |-> TRUE, flags |-> 0, cullMode |-> 2, depthClampEnable |-> 0,
         frontFace |-> 1, rasterizerDiscardEnable |-> 0, polygonMode |-> 0,
         depthBiasEnable |-> bias, depthBiasClamp |-> 2, depthBiasSlopeFactor |-> 3,
         depthBiasConstantFactor |-> 4, lineWidth |-> 1],
     pMultisampleState |->
        [present |-> TRUE, flags |-> 0, alphaToCoverageEnable |-> 0, alphaToOneEnable |-> 0,
         minSampleShading |-> 9, rasterizationSamples |-> 1, sampleShadingEnable |-> 0,
         pSampleMask |-> <<>>],
     pViewportState |->
        [present |-> TRUE, flags |-> 0, scissorCount |-> 1, viewportCount |-> 1,
         pScissors |-> <<[offset |-> [x |-> 0, y |-> 0],
                          extent |-> [width |-> 40, height |-> 41]]>>,
         pViewports |-> <<[x |-> 11, y |-> 12, width |-> 13, height |-> 14,
                           minDepth |-> 15, maxDepth |-> 16]>>],
     pVertexInputState |->
        [present |-> TRUE, flags |-> 0, vertexAttributeDescriptionCount |-> 1,
         vertexBindingDescriptionCount |-> 1,
         pVertexAttributeDescriptions |->
            <<[offset |-> 0, binding |-> 0, format |-> 100, location |-> 0]>>,
         pVertexBindingDescriptions |-> <<[binding |-> 0, inputRate |-> 0, stride |-> 16]>>],
     pColorBlendState |->
        [present |-> TRUE, flags |-> 0, attachmentCount |-> 1, logicOpEnable |-> 0,
         logicOp |-> 0,
         pAttachments |-> <<[blendEnable |-> 1, colorWriteMask |-> 15, alphaBlendOp |-> 0,
                             colorBlendOp |-> 0, dstAlphaBlendFactor |-> "ZERO",
                             srcAlphaBlendFactor |-> "ONE", dstColorBlendFactor |-> "ZERO",
                             srcColorBlendFactor |-> factor]>>,
         blendConstants |-> <<5, 6, 7, 8>>],
     pTessellationState |-> NoBlock]

\* The create-infos that differ from info in the values of the fields that
\* the dynamic state s overrides (for the viewport also: pViewports null).
Overridden(info, s) ==
    IF s = "VIEWPORT" THEN
        {[info EXCEPT !.pViewportState.pViewports[1].width = @ + 1],
         [info EXCEPT !.pViewportState.pViewports = <<>>]}
    ELSE IF s = "SCISSOR" THEN
        {[info EXCEPT !.pViewportState.pScissors[1].extent.width = @ + 1]}
    ELSE IF s = "LINE_WIDTH" THEN
        {[info EXCEPT !.pRasterizationState.lineWidth = @ + 1]}
    ELSE IF s = "DEPTH_BIAS" THEN
        {[info EXCEPT !.pRasterizationState.depthBiasClamp = @ + 1,
                      !.pRasterizationState.depthBiasConstantFactor = @ + 1]}
    ELSE IF s = "BLEND_CONSTANTS" THEN
        {[info EXCEPT !.pColorBlendState.blendConstants[1] = @ + 1]}
    ELSE IF s = "DEPTH_BOUNDS" THEN
        {[info EXCEPT !.pDepthStencilState.minDepthBounds = @ + 1]}
    ELSE IF s = "STENCIL_COMPARE_MASK" THEN
        {[info EXCEPT !.pDepthStencilState.front.compareMask = @ + 1]}
    ELSE IF s = "STENCIL_WRITE_MASK" THEN
        {[info EXCEPT !.pDepthStencilState.back.writeMask = @ + 1]}
    ELSE
        {[info EXCEPT !.pDepthStencilState.front.reference = @ + 1]}

SupervisorVars ==
    <<mpc, processes, num_graphics_pipelines, num_compute_pipelines, next_i,
      child_processes, faulty_spirv_modules, active_processes, control_block,
      worker, pipe, crashes, reported, tally, job, last>>

\* The supervisor's variables at rest, for the specifications of namespace VPC.
SupervisorOff ==
    /\ mpc = "off"
    /\ processes = 1
    /\ num_graphics_pipelines = 0
    /\ num_compute_pipelines = 0
    /\ next_i = 0
    /\ child_processes = [i \in {0} |-> NewProcessProgress(i)]
    /\ faulty_spirv_modules = {}
    /\ active_processes = 0
    /\ control_block = NewControlBlock(FALSE)
    /\ worker = [i \in {0} |-> NoWorker]
    /\ pipe = [i \in {0} |-> <<>>]
    /\ crashes = 0
    /\ reported = {}
    /\ tally = NewTally(1)
    /\ job = NoJob(1)
    /\ last = Idle

InitHash ==
    /\ SupervisorOff
    /\ \E D \in SUBSET DynamicStates, tests \in {0, 1}, factor \in {"ONE", "CONSTANT_COLOR"} :
        vpc = [pc |-> "new",
               p1 |-> GraphicsPipelineInfo(D, tests, tests, tests, factor),
               p2 |-> GraphicsPipelineInfo(D, tests, tests, tests, factor),
               h1 |-> <<>>, h2 |-> <<>>, altered |-> {}, static |-> FALSE]

\* Both create-infos are hashed as they were made.
HashFirstPipeline ==
    /\ vpc.pc = "new"
    /\ \E h \in {compute_hash_graphics_pipeline(HashRecorder, vpc.p1)} :
        vpc' = [vpc EXCEPT !.pc = "hashed", !.h1 = h, !.h2 = h]
    /\ UNCHANGED SupervisorVars

\* The second create-info gets other values in the fields that a dynamic
\* state declared by both overrides, and is hashed again (the groups are
\* taken in the order of the enum, so that each set of groups is made once).
OverrideDynamic(s) ==
    /\ vpc.pc = "hashed"
    /\ Declares(vpc.p1, s) /\ Declares(vpc.p2, s)
    /\ \A a \in vpc.altered : EnumValue(DynamicStateOrder, a) < EnumValue(DynamicStateOrder, s)
    /\ \E q \in Overridden(vpc.p2, s) :
        \E h \in {compute_hash_graphics_pipeline(HashRecorder, q)} :
            vpc' = [vpc EXCEPT !.p2 = q, !.h2 = h, !.altered = @ \cup {s}]
    /\ UNCHANGED SupervisorVars

\* The second create-info gets another viewport width while neither declares
\* VK_DYNAMIC_STATE_VIEWPORT, and is hashed again.
ChangeStaticViewport ==
    /\ vpc.pc = "hashed"
    /\ ~Declares(vpc.p1, "VIEWPORT") /\ ~Declares(vpc.p2, "VIEWPORT")
    /\ ~vpc.static
    /\ \E q \in {[vpc.p2 EXCEPT !.pViewportState.pViewports[1].width = @ + 1]} :
        \E h \in {compute_hash_graphics_pipeline(HashRecorder, q)} :
            vpc' = [vpc EXCEPT !.p2 = q, !.h2 = h, !.static = TRUE]
    /\ UNCHANGED SupervisorVars

NextHash ==
    \/ HashFirstPipeline
    \/ \E s \in DynamicStates : OverrideDynamic(s)
    \/ ChangeStaticViewport

SpecHash == InitHash /\ [][NextHash]_vars

\* ------------------------------------------------------- StateRecorder
\* Hashing::compute_hash_descriptor_set_layout
compute_hash_descriptor_set_layout(R, layout) ==
    Get(U32(layout.bindingCount)
        \o U32(layout.flags)
        \o Loop(layout.bindingCount,
                LAMBDA i :
                    U32(layout.pBindings[i].binding)
                    \o U32(layout.pBindings[i].descriptorCount)
                    \o U32(layout.pBindings[i].descriptorType)
                    \o U32(layout.pBindings[i].stageFlags)
                    \o (IF /\ layout.pBindings[i].pImmutableSamplers # <<>>
                           /\ layout.pBindings[i].descriptorType \in SamplerTypes
                        THEN Loop(layout.pBindings[i].descriptorCount,
                                  LAMBDA j : U64(GetHashFor(R, "sampler",
                                                 layout.pBindings[i].pImmutableSamplers[j])))
                        ELSE <<>>)))

\* Hashing::compute_hash_pipeline_layout
compute_hash_pipeline_layout(R, layout) ==
    Get(U32(layout.setLayoutCount)
        \o Loop(layout.setLayoutCount,
                LAMBDA i : IF layout.pSetLayouts[i] # NullHandle
                           THEN U64(GetHashFor(R, "descriptor_set_layout",
                                               layout.pSetLayouts[i]))
                           ELSE U32(0))
        \o U32(layout.pushConstantRangeCount)
        \o Loop(layout.pushConstantRangeCount,
                LAMBDA i : U32(layout.pPushConstantRanges[i].stageFlags)
                           \o U32(layout.pPushConstantRanges[i].size)
                           \o U32(layout.pPushConstantRanges[i].offset))
        \o U32(layout.flags))

\* Hashing::compute_hash_shader_module
compute_hash_shader_module(R, create_info) ==
    Get(Data(create_info.pCode, create_info.codeSize) \o U32(create_info.flags))

\* Hashing::compute_hash_compute_pipeline
compute_hash_compute_pipeline(R, create_info) ==
    Get(U64(GetHashFor(R, "pipeline_layout", create_info.layout))
        \o U32(create_info.flags)
        \o (IF create_info.basePipelineHandle # NullHandle
            THEN U64(GetHashFor(R, "compute_pipeline", create_info.basePipelineHandle))
                 \o S32(create_info.basePipelineIndex)
            ELSE U32(0))
        \o U64(GetHashFor(R, "shader_module", create_info.stage.module))
        \o String(create_info.stage.pName)
        \o U32(create_info.stage.flags)
        \o U32(create_info.stage.stage)
        \o (IF create_info.stage.pSpecializationInfo.present
            THEN hash_specialization_info(create_info.stage.pSpecializationInfo)
            ELSE U32(0)))

\* Hashing::compute_hash_render_pass, for passes whose attachments and
\* dependencies are given and whose subpasses reference no attachment.
compute_hash_render_pass(R, create_info) ==
    Get(U32(create_info.attachmentCount)
        \o U32(create_info.dependencyCount)
        \o U32(create_info.subpassCount)
        \o Loop(create_info.attachmentCount,
                LAMBDA i : U32(create_info.pAttachments[i].flags)
                           \o U32(create_info.pAttachments[i].initialLayout)
                           \o U32(create_info.pAttachments[i].finalLayout)
                           \o U32(create_info.pAttachments[i].format)
                           \o U32(create_info.pAttachments[i].loadOp)
                           \o U32(create_info.pAttachments[i].storeOp)
                           \o U32(create_info.pAttachments[i].stencilLoadOp)
                           \o U32(create_info.pAttachments[i].stencilStoreOp)
                           \o U32(create_info.pAttachments[i].samples))
        \o Loop(create_info.dependencyCount,
                LAMBDA i : U32(create_info.pDependencies[i].dependencyFlags)
                           \o U32(create_info.pDependencies[i].dstAccessMask)
                           \o U32(create_info.pDependencies[i].srcAccessMask)
                           \o U32(create_info.pDependencies[i].srcSubpass)
                           \o U32(create_info.pDependencies[i].dstSubpass)
                           \o U32(create_info.pDependencies[i].srcStageMask)
                           \o U32(create_info.pDependencies[i].dstStageMask))
        \o Loop(create_info.subpassCount,
                LAMBDA i : U32(create_info.pSubpasses[i].flags)
                           \o U32(0) \o U32(0) \o U32(0)
                           \o U32(create_info.pSubpasses[i].pipelineBindPoint)
                           \o U32(0)))

\* The sampler's hash is made outside of this file: its fields, as tokens.
compute_hash_sampler(R, create_info) ==
    Get(U32(create_info.flags) \o U32(create_info.minFilter) \o U32(create_info.magFilter))

compute_hash(R, k, info) ==
    IF k = "sampler" THEN compute_hash_sampler(R, info)
    ELSE IF k = "descriptor_set_layout" THEN compute_hash_descriptor_set_layout(R, info)
    ELSE IF k = "pipeline_layout" THEN compute_hash_pipeline_layout(R, info)
    ELSE IF k = "shader_module" THEN compute_hash_shader_module(R, info)
    ELSE IF k = "render_pass" THEN compute_hash_render_pass(R, info)
    ELSE IF k = "compute_pipeline" THEN compute_hash_compute_pipeline(R, info)
    ELSE compute_hash_graphics_pipeline(R, info)

\* A recorder as constructed: seven empty registries, seven empty maps.
NewRecorder == [reg |-> [k \in Kinds |-> <<>>], to_index |-> [k \in Kinds |-> <<>>]]

\* StateRecorder::set_<kind>_handle: <kind>_to_index[handle] = index
SetHandle(R, k, index, handle) ==
    [R EXCEPT !.to_index[k] =
        [h \in (DOMAIN @) \cup {handle} |-> IF h = handle THEN index ELSE @[h]]]

\* unordered_map::operator[] as the copy_* functions use it to read the map:
\* a handle that is not in the map is put into it with the index 0.
Touch(R, k, handles) ==
    [R EXCEPT !.to_index[k] =
        [h \in (DOMAIN @) \cup handles |-> IF h \in DOMAIN @ THEN @[h] ELSE 0]]

\* reinterpret_cast<Vk...>(uint64_t(<kind>_to_index[handle] + 1))
IndexPlusOne(T, k, handle) == T.to_index[k][handle] + 1

\* The handles that copy_<kind> looks up in each map for a create-info.
\* copy_descriptor_set_layout looks up, for the binding at position i, the
\* element i of its pImmutableSamplers only.
Touched(k, info) ==
    [t \in Kinds |->
        IF k = "descriptor_set_layout" /\ t = "sampler" THEN
            {info.pBindings[i].pImmutableSamplers[i] :
                i \in {n \in 1..info.bindingCount :
                        /\ info.pBindings[n].pImmutableSamplers # <<>>
                        /\ info.pBindings[n].descriptorType \in SamplerTypes}}
        ELSE IF k = "pipeline_layout" /\ t = "descriptor_set_layout" THEN
            {info.pSetLayouts[i] : i \in 1..info.setLayoutCount}
        ELSE IF k = "compute_pipeline" /\ t = "shader_module" THEN {info.stage.module}
        ELSE IF k = "compute_pipeline" /\ t = "compute_pipeline" THEN
            {info.basePipelineHandle} \ {NullHandle}
        ELSE IF k = "graphics_pipeline" /\ t = "render_pass" THEN {info.renderPass}
        ELSE IF k = "graphics_pipeline" /\ t = "graphics_pipeline" THEN
            {info.basePipelineHandle} \ {NullHandle}
        ELSE IF k = "graphics_pipeline" /\ t = "shader_module" THEN
            {info.pStages[i].module : i \in 1..info.stageCount}
        ELSE {}]

RECURSIVE TouchAll(_, _, _)
TouchAll(R, ks, touched) ==
    IF ks = {} THEN R
    ELSE LET t == CHOOSE x \in ks : TRUE
         IN  TouchAll(Touch(R, t, touched[t]), ks \ {t}, touched)

\* The copy that is stored: handles replaced by index + 1 where copy_<kind>
\* replaces them (T is the recorder after the lookups).  The layout of a
\* pipeline is stored as the handle it came with.
Stored(T, k, info) ==
    IF k = "descriptor_set_layout" THEN
        [info EXCEPT !.pBindings =
            [i \in DOMAIN @ |->
                IF /\ @[i].pImmutableSamplers # <<>>
                   /\ @[i].descriptorType \in SamplerTypes
                THEN [@[i] EXCEPT !.pImmutableSamplers[i] = IndexPlusOne(T, "sampler", @)]
                ELSE @[i]]]
    ELSE IF k = "pipeline_layout" THEN
        [info EXCEPT !.pSetLayouts =
            [i \in DOMAIN @ |-> IndexPlusOne(T, "descriptor_set_layout", @[i])]]
    ELSE IF k = "compute_pipeline" THEN
        [info EXCEPT !.stage.module = IndexPlusOne(T, "shader_module", @),
                     !.basePipelineHandle =
                        IF @ # NullHandle THEN IndexPlusOne(T, "compute_pipeline", @) ELSE @]
    ELSE IF k = "graphics_pipeline" THEN
        [info EXCEPT !.renderPass = IndexPlusOne(T, "render_pass", @),
                     !.basePipelineHandle =
                        IF @ # NullHandle THEN IndexPlusOne(T, "graphics_pipeline", @) ELSE @,
                     !.pStages = [i \in DOMAIN @ |->
                        [@[i] EXCEPT !.module = IndexPlusOne(T, "shader_module", @)]]]
    ELSE info

\* Variant of Register: an entry with a hash the registry already holds is
\* not stored again.
RegisterMutantNoDuplicates(R, k, hash, info) ==
    CHOOSE N \in {[T EXCEPT !.reg[k] =
                        IF \E n \in DOMAIN @ : @[n].hash = hash THEN @
                        ELSE Append(@, [hash |-> hash, info |-> Stored(T, k, info)])] :
                    T \in {TouchAll(R, Kinds, Touched(k, info))}} : TRUE

\* StateRecorder::register_<kind>: the copy is pushed back; the index of the
\* new element is Len(R.reg[k]).
Register(R, k, hash, info) ==
    CHOOSE N \in {[T EXCEPT !.reg[k] = Append(@, [hash |-> hash, info |-> Stored(T, k, info)])] :
                    T \in {TouchAll(R, Kinds, Touched(k, info))}} : TRUE

\* ------------------------------------------- recording in two recorders
\* The same fourteen objects, two of each kind, are recorded in two
\* recorders: kind by kind, the two of a kind in either order.  An object's
\* create-info names the objects it uses by the handles they have in the
\* recorder at hand.
Entities == <<"s1", "s2", "l1", "l2", "p1", "p2", "m1", "m2", "r1", "r2",
              "c1", "c2", "g1", "g2">>
EntitySet == {Entities[n] : n \in DOMAIN Entities}

KindOrder == <<"sampler", "descriptor_set_layout", "pipeline_layout", "shader_module",
               "render_pass", "compute_pipeline", "graphics_pipeline">>

Place(e) == CHOOSE n \in DOMAIN Entities : Entities[n] = e
KindOf(e) == KindOrder[(Place(e) + 1) \div 2]

\* The objects whose handles the create-info of e holds.
Refs(e) ==
    IF e = "l1" THEN {"s1", "s2"} ELSE IF e = "l2" THEN {"s2"}
    ELSE IF e = "p1" THEN {"l1", "l2"} ELSE IF e = "p2" THEN {"l2"}
    ELSE IF e = "c1" THEN {"p1", "m1"} ELSE IF e = "c2" THEN {"p2", "m2", "c1"}
    ELSE IF e = "g1" THEN {"p1", "r1", "m1"} ELSE IF e = "g2" THEN {"p2", "r2", "m2", "g1"}
    ELSE {}

ShaderStage(module, name) ==
    [flags |-> 0, pName |-> name, stage |-> 1, module |-> module,
     pSpecializationInfo |->
        [present |-> TRUE, pData |-> <<7>>, dataSize |-> 1, mapEntryCount |-> 1,
         pMapEntries |-> <<[offset |-> 0, size |-> 1, constantID |-> 2]>>]]

TessellationState == [present |-> TRUE, flags |-> 0, patchControlPoints |-> 3]

\* The create-info of e, H giving the handles of the objects recorded.  A
\* graphics pipeline comes with every state block and every stage with its
\* specialization info: copy_graphics_pipeline reads them all.
InfoOf(e, H) ==
    IF e = "s1" THEN
        [flags |-> 0, minFilter |-> 0, magFilter |-> 0,
         addressModeU |-> 0, addressModeV |-> 1, addressModeW |-> 2]
    ELSE IF e = "s2" THEN
        [flags |-> 0, minFilter |-> 1, magFilter |-> 1,
         addressModeU |-> 2, addressModeV |-> 2, addressModeW |-> 2]
    ELSE IF e = "l1" THEN
        [flags |-> 0, bindingCount |-> 1,
         pBindings |-> <<[binding |-> 0, descriptorCount |-> 2, descriptorType |-> 1,
                          stageFlags |-> 16, pImmutableSamplers |-> <<H["s1"], H["s2"]>>]>>]
    ELSE IF e = "l2" THEN
        [flags |-> 0, bindingCount |-> 1,
         pBindings |-> <<[binding |-> 3, descriptorCount |-> 1, descriptorType |-> 0,
                          stageFlags |-> 16, pImmutableSamplers |-> <<H["s2"]>>]>>]
    ELSE IF e = "p1" THEN
        [flags |-> 0, setLayoutCount |-> 2, pSetLayouts |-> <<H["l1"], H["l2"]>>,
         pushConstantRangeCount |-> 1,
         pPushConstantRanges |-> <<[stageFlags |-> 16, size |-> 8, offset |-> 0]>>]
    ELSE IF e = "p2" THEN
        [flags |-> 0, setLayoutCount |-> 2, pSetLayouts |-> <<H["l2"], NullHandle>>,
         pushConstantRangeCount |-> 0, pPushConstantRanges |-> <<>>]
    ELSE IF e = "m1" THEN [flags |-> 0, pCode |-> <<1, 2>>, codeSize |-> 8]
    ELSE IF e = "m2" THEN [flags |-> 0, pCode |-> <<3>>, codeSize |-> 4]
    ELSE IF e = "r1" THEN
        [flags |-> 0, attachmentCount |-> 1, dependencyCount |-> 1, subpassCount |-> 1,
         pAttachments |-> <<[flags |-> 0, initialLayout |-> 0, finalLayout |-> 2,
                             format |-> 37, loadOp |-> 1, storeOp |-> 0,
                             stencilLoadOp |-> 2, stencilStoreOp |-> 1, samples |-> 1]>>,
         pDependencies |-> <<[dependencyFlags |-> 0, dstAccessMask |-> 1, srcAccessMask |-> 2,
                              srcSubpass |-> 0, dstSubpass |-> 0, srcStageMask |-> 1,
                              dstStageMask |-> 1]>>,
         pSubpasses |-> <<[flags |-> 0, pipelineBindPoint |-> 0]>>]
    ELSE IF e = "r2" THEN
        [flags |-> 0, attachmentCount |-> 0, dependencyCount |-> 0, subpassCount |-> 1,
         pAttachments |-> <<>>, pDependencies |-> <<>>,
         pSubpasses |-> <<[flags |-> 0, pipelineBindPoint |-> 1]>>]
    ELSE IF e = "c1" THEN
        [flags |-> 0, layout |-> H["p1"], basePipelineHandle |-> NullHandle,
         basePipelineIndex |-> -1, stage |-> ShaderStage(H["m1"], "main")]
    ELSE IF e = "c2" THEN
        [flags |-> 0, layout |-> H["p2"], basePipelineHandle |-> H["c1"],
         basePipelineIndex |-> -1, stage |-> ShaderStage(H["m2"], "main")]
    ELSE IF e = "g1" THEN
        [GraphicsPipelineInfo({"LINE_WIDTH"}, 0, 0, 0, "ONE") EXCEPT
            !.layout = H["p1"], !.renderPass = H["r1"],
            !.pTessellationState = TessellationState,
            !.pStages = <<ShaderStage(H["m1"], "vert")>>]
    ELSE
        [GraphicsPipelineInfo({"VIEWPORT", "SCISSOR"}, 1, 1, 1, "CONSTANT_COLOR") EXCEPT
            !.layout = H["p2"], !.renderPass = H["r2"], !.basePipelineHandle = H["g1"],
            !.pTessellationState = TessellationState,
            !.pStages = <<ShaderStage(H["m2"], "frag")>>]

\* The handle the n-th object recorded gets from the application that
\* records with recorder r: the two applications hand out different values.
HandleFor(r, n) == IF r = 1 THEN n ELSE 30 - n

NewRecording == [R |-> NewRecorder, handle |-> <<>>, hash |-> <<>>]

\* What recording e does to a recording c of recorder r: the hash is
\* computed, the create-info registered under it, the handle installed.
Recorded(c, r, e) ==
    LET info == InfoOf(e, c.handle)
        index == Len(c.R.reg[KindOf(e)])
        handle == HandleFor(r, Cardinality(DOMAIN c.handle) + 1)
    IN  CHOOSE n \in {[R |-> SetHandle(Register(c.R, KindOf(e), h, info),
                                       KindOf(e), index, handle),
                       handle |-> [x \in DOMAIN c.handle \cup {e} |->
                                    IF x = e THEN handle ELSE c.handle[x]],
                       hash |-> [x \in DOMAIN c.hash \cup {e} |->
                                    IF x = e THEN h ELSE c.hash[x]]] :
                      h \in {compute_hash(c.R, KindOf(e), info)}} : TRUE

InitRecorder ==
    /\ SupervisorOff
    /\ vpc = [pc |-> "record", turn |-> 1, rec |-> <<NewRecording, NewRecording>>]

\* The application records e with the recorder whose turn it is.
Record(e) ==
    /\ vpc.pc = "record"
    /\ e \notin DOMAIN vpc.rec[vpc.turn].handle
    /\ Refs(e) \subseteq DOMAIN vpc.rec[vpc.turn].handle
    /\ \A x \in EntitySet :
            Place(x) + 1 < 2 * ((Place(e) + 1) \div 2) => x \in DOMAIN vpc.rec[vpc.turn].handle
    /\ \E c \in {Recorded(vpc.rec[vpc.turn], vpc.turn, e)} :
        vpc' = [vpc EXCEPT !.rec[vpc.turn] = c]
    /\ UNCHANGED SupervisorVars

\* The first recorder has everything: the second one starts.
SecondRecorder ==
    /\ vpc.pc = "record"
    /\ vpc.turn = 1
    /\ DOMAIN vpc.rec[1].handle = EntitySet
    /\ vpc' = [vpc EXCEPT !.turn = 2]
    /\ UNCHANGED SupervisorVars

NextRecorder ==
    \/ \E e \in EntitySet : Record(e)
    \/ SecondRecorder

SpecRecorder == InitRecorder /\ [][NextRecorder]_vars

\* ------------------------------------------------- serialize and parse
\* Base64 is not in this file (b64_encode, b64_decode): the standard
\* encoding, a character being its number 0..63 and 64 the padding '='.

RECURSIVE b64_encode(_)
b64_encode(b) ==
    IF Len(b) = 0 THEN <<>>
    ELSE IF Len(b) = 1 THEN <<b[1] \div 4, (b[1] % 4) * 16, 64, 64>>
    ELSE IF Len(b) = 2 THEN
        <<b[1] \div 4, (b[1] % 4) * 16 + b[2] \div 16, (b[2] % 16) * 4, 64>>
    ELSE <<b[1] \div 4, (b[1] % 4) * 16 + b[2] \div 16,
           (b[2] % 16) * 4 + b[3] \div 64, b[3] % 64>>
         \o b64_encode(SubSeq(b, 4, Len(b)))

RECURSIVE b64_decode(_)
b64_decode(s) ==
    IF Len(s) < 4 THEN <<>>
    ELSE (<<s[1] * 4 + s[2] \div 16>>
          \o (IF s[3] = 64 THEN <<>> ELSE <<(s[2] % 16) * 16 + s[3] \div 4>>)
          \o (IF s[3] = 64 \/ s[4] = 64 THEN <<>> ELSE <<(s[3] % 4) * 64 + s[4]>>))
         \o b64_decode(SubSeq(s, 5, Len(s)))

\* The bytes of 32-bit words in memory (little endian), and back.
RECURSIVE BytesOf(_)
BytesOf(words) ==
    IF words = <<>> THEN <<>>
    ELSE <<Head(words) % 256, (Head(words) \div 256) % 256,
           (Head(words) \div 65536) % 256, (Head(words) \div 16777216) % 256>>
         \o BytesOf(Tail(words))

RECURSIVE WordsOf(_)
WordsOf(bytes) ==
    IF Len(bytes) < 4 THEN <<>>
    ELSE <<bytes[1] + 256 * bytes[2] + 65536 * bytes[3] + 16777216 * bytes[4]>>
         \o WordsOf(SubSeq(bytes, 5, Len(bytes)))

\* encode_base64(data, size): the first size bytes of data.
encode_base64(bytes, size) == b64_encode(SubSeq(bytes, 1, size))

\* decode_base64(allocator, data, size): size bytes of the decoded buffer.
decode_base64(data, size) ==
    CHOOSE r \in {SubSeq(b, 1, IF size < Len(b) THEN size ELSE Len(b)) :
                    b \in {b64_decode(data)}} : TRUE

\* A JSON object is a record, a JSON array a sequence.
HasMember(obj, name) == name \in DOMAIN obj

\* The element that serialize() makes of a registered sampler: no "hash",
\* and the three address modes all from addressModeU.
SerializeSampler(e) ==
    [flags |-> e.info.flags, minFilter |-> e.info.minFilter, magFilter |-> e.info.magFilter,
     addressModeU |-> e.info.addressModeU, addressModeV |-> e.info.addressModeU,
     addressModeW |-> e.info.addressModeU]

SerializePipelineLayout(e) ==
    [hash |-> e.hash, flags |-> e.info.flags,
     pushConstantRanges |->
        [i \in 1..e.info.pushConstantRangeCount |->
            [stageFlags |-> e.info.pPushConstantRanges[i].stageFlags,
             size |-> e.info.pPushConstantRanges[i].size,
             offset |-> e.info.pPushConstantRanges[i].offset]],
     setLayouts |-> [i \in 1..e.info.setLayoutCount |-> e.info.pSetLayouts[i]]]

\* No "codeSize".
SerializeShaderModule(e) ==
    [hash |-> e.hash, flags |-> e.info.flags,
     code |-> encode_base64(BytesOf(e.info.pCode), e.info.codeSize)]

SerializeStage(s) ==
    [flags |-> s.flags, stage |-> s.stage, module |-> s.module, name |-> s.pName,
     specializationInfo |->
        [dataSize |-> s.pSpecializationInfo.dataSize,
         code |-> encode_base64(s.pSpecializationInfo.pData, s.pSpecializationInfo.dataSize),
         mapEntries |-> s.pSpecializationInfo.pMapEntries]]

SerializeComputePipeline(e) ==
    [hash |-> e.hash, flags |-> e.info.flags, layout |-> e.info.layout,
     basePipelineHandle |-> e.info.basePipelineHandle,
     basePipelineIndex |-> e.info.basePipelineIndex,
     stage |-> SerializeStage(e.info.stage)]

\* Of a graphics pipeline: the members that hold references, and the stages.
\* The state blocks are written as well; no code reads them.
SerializeGraphicsPipeline(e) ==
    [hash |-> e.hash, flags |-> e.info.flags,
     basePipelineHandle |-> e.info.basePipelineHandle,
     basePipelineIndex |-> e.info.basePipelineIndex,
     layout |-> e.info.layout, renderPass |-> e.info.renderPass,
     subpass |-> e.info.subpass,
     stages |-> [i \in 1..e.info.stageCount |-> SerializeStage(e.info.pStages[i])]]

\* StateRecorder::serialize.  The arrays "setLayouts" and "renderPasses" are
\* moved into the document while they are empty, and the elements are
\* pushed to the moved-from values afterwards: they are not in the document.
Serialize(R) ==
    [samplers |-> [i \in DOMAIN R.reg["sampler"] |-> SerializeSampler(R.reg["sampler"][i])],
     setLayouts |-> <<>>,
     pipelineLayouts |->
        [i \in DOMAIN R.reg["pipeline_layout"] |->
            SerializePipelineLayout(R.reg["pipeline_layout"][i])],
     shaderModules |->
        [i \in DOMAIN R.reg["shader_module"] |->
            SerializeShaderModule(R.reg["shader_module"][i])],
     renderPasses |-> <<>>,
     computePipelines |->
        [i \in DOMAIN R.reg["compute_pipeline"] |->
            SerializeComputePipeline(R.reg["compute_pipeline"][i])],
     graphicsPipelines |->
        [i \in DOMAIN R.reg["graphics_pipeline"] |->
            SerializeGraphicsPipeline(R.reg["graphics_pipeline"][i])]]

\* PushBack on a value that is not an array (the moved-from one) fails
\* RAPIDJSON_ASSERT where assertions are compiled in, and is not noticed
\* where they are not.
SerializeOutcomes(R) ==
    IF R.reg["descriptor_set_layout"] # <<>> \/ R.reg["render_pass"] # <<>>
    THEN {"abort", "document"} ELSE {"document"}

\* StateReplayer::parse: the kinds in the order in which their arrays are
\* parsed, and the name of the array of each.
ParseOrderMutantAsClaimed ==
    <<"sampler", "descriptor_set_layout", "pipeline_layout", "shader_module", "render_pass">>

ParseOrder ==
    <<"shader_module", "sampler", "descriptor_set_layout", "pipeline_layout", "render_pass">>

MemberOf(k) ==
    IF k = "shader_module" THEN "shaderModules"
    ELSE IF k = "sampler" THEN "samplers"
    ELSE IF k = "descriptor_set_layout" THEN "descriptorSetLayouts"
    ELSE IF k = "pipeline_layout" THEN "pipelineLayouts"
    ELSE "renderPasses"

\* The members of an element that parse_<kind> reads with operator[].
Required(k) ==
    IF k = "shader_module" THEN {"flags", "codeSize", "code", "hash"}
    ELSE IF k = "sampler" THEN
        {"addressModeU", "addressModeV", "addressModeW", "flags", "magFilter", "minFilter",
         "hash"}
    ELSE {"flags", "hash"}

\* The value 0 where a 64-bit hash is read.
ZeroHash == <<<<"u64", 0>>>>

\* obj[name] with GetUint/GetUint64/GetString.  A member that is missing
\* fails RAPIDJSON_ASSERT; without assertions the static null value is read.
ReadMember(obj, name) ==
    IF HasMember(obj, name) THEN obj[name]
    ELSE IF name = "hash" THEN ZeroHash
    ELSE IF name = "code" THEN <<>>
    ELSE 0

\* parse_immutable_samplers, parse_set_layouts: index > size throws.
Dangling(indices, table) == \E i \in DOMAIN indices : indices[i] > Len(table)

Resolve(indices, table) ==
    [i \in DOMAIN indices |-> IF indices[i] > 0 THEN table[indices[i]] ELSE NullHandle]

\* Whether parsing the element obj of kind k throws.
Throws(k, obj, replayed) ==
    IF k = "descriptor_set_layout" /\ HasMember(obj, "bindings") THEN
        \E i \in DOMAIN obj.bindings :
            /\ HasMember(obj.bindings[i], "immutableSamplers")
            /\ Dangling(obj.bindings[i].immutableSamplers, replayed["sampler"])
    ELSE IF k = "pipeline_layout" /\ HasMember(obj, "setLayouts") THEN
        Dangling(obj.setLayouts, replayed["descriptor_set_layout"])
    ELSE FALSE

\* parse_descriptor_set_bindings
ParseBinding(b, replayed) ==
    [binding |-> b.binding, descriptorCount |-> b.descriptorCount,
     descriptorType |-> b.descriptorType, stageFlags |-> b.stageFlags,
     pImmutableSamplers |->
        IF HasMember(b, "immutableSamplers")
        THEN Resolve(b.immutableSamplers, replayed["sampler"]) ELSE <<>>]

\* The create-info that parse_<kind> hands to the engine for the element obj.
ParsedInfo(k, obj, replayed) ==
    IF k = "shader_module" THEN
        [flags |-> ReadMember(obj, "flags"), codeSize |-> ReadMember(obj, "codeSize"),
         pCode |-> WordsOf(decode_base64(ReadMember(obj, "code"), ReadMember(obj, "codeSize")))]
    ELSE IF k = "sampler" THEN
        [flags |-> obj.flags, minFilter |-> obj.minFilter, magFilter |-> obj.magFilter,
         addressModeU |-> obj.addressModeU, addressModeV |-> obj.addressModeV,
         addressModeW |-> obj.addressModeW]
    ELSE IF k = "descriptor_set_layout" THEN
        [flags |-> obj.flags,
         bindingCount |-> IF HasMember(obj, "bindings") THEN Len(obj.bindings) ELSE 0,
         pBindings |-> IF HasMember(obj, "bindings")
                       THEN [i \in DOMAIN obj.bindings |-> ParseBinding(obj.bindings[i], replayed)]
                       ELSE <<>>]
    ELSE IF k = "pipeline_layout" THEN
        [flags |-> obj.flags,
         pushConstantRangeCount |->
            IF HasMember(obj, "pushConstantRanges") THEN Len(obj.pushConstantRanges) ELSE 0,
         pPushConstantRanges |->
            IF HasMember(obj, "pushConstantRanges") THEN obj.pushConstantRanges ELSE <<>>,
         setLayoutCount |-> IF HasMember(obj, "setLayouts") THEN Len(obj.setLayouts) ELSE 0,
         pSetLayouts |->
            IF HasMember(obj, "setLayouts")
            THEN Resolve(obj.setLayouts, replayed["descriptor_set_layout"]) ELSE <<>>]
    ELSE
        [flags |-> obj.flags,
         subpassCount |-> IF HasMember(obj, "subpasses") THEN Len(obj.subpasses) ELSE 0,
         pSubpasses |-> IF HasMember(obj, "subpasses")
                        THEN [i \in DOMAIN obj.subpasses |-> [flags |-> obj.subpasses[i].flags]]
                        ELSE <<>>]

\* The handle that the engine at the other side of StateCreatorInterface
\* writes through the pointer of enqueue_create_<kind> for the element at
\* index (from 0): one handle per object.
EngineHandle(k, index) ==
    100 + 10 * (CHOOSE n \in DOMAIN KindOrder : KindOrder[n] = k) + index

\* The outcomes of parsing one element.
ElementOutcomes(k, obj, replayed) ==
    IF Throws(k, obj, replayed)
    THEN (IF HasMember(obj, "flags") THEN {"throw"} ELSE {"abort", "throw"})
    ELSE IF Required(k) \subseteq DOMAIN obj THEN {"enqueue"}
    ELSE {"abort", "enqueue"}

\* --------------------------------------------- a recorder, then a replayer
\* A recorder that holds some of the fourteen objects (with every object
\* those it uses) is serialized and the document parsed; or a document that
\* has the members parse() looks for is parsed (own tells the two apart).
\* An engine that creates each object as it is enqueued notes the calls it
\* gets.
MaxElems == 2

RECURSIVE RecordAll(_, _, _)
RecordAll(c, n, S) ==
    IF n > Len(Entities) THEN c
    ELSE IF Entities[n] \in S
         THEN CHOOSE r \in {RecordAll(d, n + 1, S) : d \in {Recorded(c, 1, Entities[n])}} : TRUE
         ELSE RecordAll(c, n + 1, S)

Recordable == {S \in SUBSET EntitySet : \A e \in S : Refs(e) \subseteq S}

ArchiveHash(k, i) == U64(EngineHandle(k, i) + 100)

\* The i-th element of the array of kind k in an archive; ref_s and ref_l
\* are the references to a sampler and to a set layout that it holds.
ArchiveElement(k, i, ref_s, ref_l) ==
    IF k = "shader_module" THEN
        [hash |-> ArchiveHash(k, i), flags |-> 0, codeSize |-> 4 * i,
         code |-> encode_base64(BytesOf([n \in 1..i |-> 300 * n]), 4 * i)]
    ELSE IF k = "sampler" THEN
        [hash |-> ArchiveHash(k, i), flags |-> 0, minFilter |-> i - 1, magFilter |-> 1,
         addressModeU |-> 0, addressModeV |-> 1, addressModeW |-> 2]
    ELSE IF k = "descriptor_set_layout" THEN
        IF i = 1 THEN
            [hash |-> ArchiveHash(k, i), flags |-> 0,
             bindings |-> <<[binding |-> 0, descriptorCount |-> 2, descriptorType |-> 1,
                             stageFlags |-> 16, immutableSamplers |-> <<ref_s, 0>>],
                            [binding |-> 1, descriptorCount |-> 1, descriptorType |-> 6,
                             stageFlags |-> 16]>>]
        ELSE [hash |-> ArchiveHash(k, i), flags |-> 0]
    ELSE IF k = "pipeline_layout" THEN
        IF i = 1 THEN
            [hash |-> ArchiveHash(k, i), flags |-> 0,
             pushConstantRanges |-> <<[stageFlags |-> 16, size |-> 8, offset |-> 0]>>,
             setLayouts |-> <<0, ref_l>>]
        ELSE [hash |-> ArchiveHash(k, i), flags |-> 0]
    ELSE [hash |-> ArchiveHash(k, i), flags |-> 0, subpasses |-> <<[flags |-> 0]>>]

\* An archive with num[k] elements of kind k; a kind of which there is none
\* has no member.
Archive(num, ref_s, ref_l) ==
    [name \in {MemberOf(k) : k \in {x \in DOMAIN num : num[x] > 0}} |->
        [i \in 1..num[CHOOSE k \in DOMAIN num : MemberOf(k) = name] |->
            ArchiveElement(CHOOSE k \in DOMAIN num : MemberOf(k) = name, i, ref_s, ref_l)]]

ParsedKinds == {ParseOrder[n] : n \in DOMAIN ParseOrder}

NoDocument == [nothing |-> <<>>]

NewReplayer ==
    [kind |-> 0, elem |-> 0, calls |-> <<>>,
     replayed |-> [k \in ParsedKinds |-> <<>>], result |-> "none"]

InitReplay ==
    /\ SupervisorOff
    /\ \/ \E S \in Recordable :
            vpc = [pc |-> "recorded", R |-> RecordAll(NewRecording, 1, S).R,
                   doc |-> NoDocument, own |-> TRUE, replayer |-> NewReplayer]
       \/ \E num \in [ParsedKinds -> 0..MaxElems], ref_s, ref_l \in 0..MaxElems :
            vpc = [pc |-> "archive", R |-> NewRecorder,
                   doc |-> Archive(num, ref_s, ref_l), own |-> FALSE,
                   replayer |-> NewReplayer]

\* serialize()
SerializeCall ==
    /\ vpc.pc = "recorded"
    /\ \E out \in SerializeOutcomes(vpc.R) :
        IF out = "abort"
        THEN vpc' = [vpc EXCEPT !.pc = "aborted"]
        ELSE vpc' = [vpc EXCEPT !.pc = "serialized", !.doc = Serialize(vpc.R)]
    /\ UNCHANGED SupervisorVars

\* parse() is entered: the text is a JSON document.
ParseCall ==
    /\ vpc.pc \in {"serialized", "archive"}
    /\ vpc' = [vpc EXCEPT !.pc = "parsing", !.replayer.kind = 1]
    /\ UNCHANGED SupervisorVars

Parsing == vpc.pc = "parsing"

CurrentKind == ParseOrder[vpc.replayer.kind]

CurrentArray == vpc.doc[MemberOf(CurrentKind)]

\* if (doc.HasMember(...)) parse_<kind>(...): set_num_<kind>(Size()) and the
\* table resized; else set_num_<kind>(0).
ParseKindBegin ==
    /\ Parsing
    /\ vpc.replayer.kind \in DOMAIN ParseOrder
    /\ vpc.replayer.elem = 0
    /\ IF HasMember(vpc.doc, MemberOf(CurrentKind))
       THEN vpc' = [vpc EXCEPT
                !.replayer.calls =
                    Append(@, [call |-> "set_num", kind |-> CurrentKind,
                               num |-> Len(CurrentArray)]),
                !.replayer.replayed[CurrentKind] =
                    [i \in 1..Len(CurrentArray) |-> NullHandle],
                !.replayer.elem = 1]
       ELSE vpc' = [vpc EXCEPT
                !.replayer.calls =
                    Append(@, [call |-> "set_num", kind |-> CurrentKind, num |-> 0]),
                !.replayer.kind = @ + 1]
    /\ UNCHANGED SupervisorVars

\* One turn of the loop of parse_<kind>: the element is read and enqueued,
\* and the engine writes the handle of what it creates.  An exception ends
\* parse() with false.
ParseElement ==
    /\ Parsing
    /\ vpc.replayer.kind \in DOMAIN ParseOrder
    /\ vpc.replayer.elem > 0
    /\ vpc.replayer.elem <= Len(CurrentArray)
    /\ \E k \in {CurrentKind}, index \in {vpc.replayer.elem - 1} :
       \E obj \in {CurrentArray[index + 1]} :
       \E out \in ElementOutcomes(k, obj, vpc.replayer.replayed) :
        IF out = "abort" THEN vpc' = [vpc EXCEPT !.pc = "aborted"]
        ELSE IF out = "throw" THEN
            vpc' = [vpc EXCEPT !.pc = "returned", !.replayer.result = "false"]
        ELSE vpc' = [vpc EXCEPT
                !.replayer.calls =
                    Append(@, [call |-> "enqueue_create", kind |-> k,
                               hash |-> ReadMember(obj, "hash"), index |-> index,
                               info |-> ParsedInfo(k, obj, vpc.replayer.replayed),
                               handle |-> EngineHandle(k, index)]),
                !.replayer.replayed[k][index + 1] = EngineHandle(k, index),
                !.replayer.elem = @ + 1]
    /\ UNCHANGED SupervisorVars

\* Variant of ParseKindEnd: parse_<kind> returns without wait_enqueue().
ParseKindEndMutantNoWait ==
    /\ Parsing
    /\ vpc.replayer.kind \in DOMAIN ParseOrder
    /\ vpc.replayer.elem > 0
    /\ vpc.replayer.elem = Len(CurrentArray) + 1
    /\ vpc' = [vpc EXCEPT !.replayer.kind = @ + 1, !.replayer.elem = 0]
    /\ UNCHANGED SupervisorVars

\* iface.wait_enqueue() at the end of parse_<kind>
ParseKindEnd ==
    /\ Parsing
    /\ vpc.replayer.kind \in DOMAIN ParseOrder
    /\ vpc.replayer.elem > 0
    /\ vpc.replayer.elem = Len(CurrentArray) + 1
    /\ vpc' = [vpc EXCEPT
            !.replayer.calls = Append(@, [call |-> "wait_enqueue", kind |-> CurrentKind]),
            !.replayer.kind = @ + 1,
            !.replayer.elem = 0]
    /\ UNCHANGED SupervisorVars

\* return true
ParseReturn ==
    /\ Parsing
    /\ vpc.replayer.kind = Len(ParseOrder) + 1
    /\ vpc' = [vpc EXCEPT !.pc = "returned", !.replayer.result = "true"]
    /\ UNCHANGED SupervisorVars

NextReplay ==
    \/ SerializeCall
    \/ ParseCall
    \/ ParseKindBegin
    \/ ParseElement
    \/ ParseKindEnd
    \/ ParseReturn

SpecReplay == InitReplay /\ [][NextReplay]_vars

\* --------------------------------------------- the calls of a recorder
\* An application calls one recorder: it registers objects under the hash
\* that Hashing computes for them (a create-info for which compute_hash
\* throws is not registered), installs handles for registered indices, and
\* asks for hashes.  installed notes, per kind, the index that
\* set_<kind>_handle was last called with for each handle.
MaxCalls == 4

ApiKinds == {"sampler", "descriptor_set_layout", "pipeline_layout"}

AppHandles == {1, 2}

ApiInfos(k) ==
    IF k = "sampler" THEN {InfoOf("s1", <<>>)}
    ELSE IF k = "descriptor_set_layout" THEN
        {[flags |-> 0, bindingCount |-> 0, pBindings |-> <<>>]}
        \cup {[flags |-> 0, bindingCount |-> 1,
               pBindings |-> <<[binding |-> 0, descriptorCount |-> 1, descriptorType |-> 0,
                                stageFlags |-> 16, pImmutableSamplers |-> <<h>>]>>] :
                h \in AppHandles}
    ELSE {[flags |-> 0, setLayoutCount |-> 1, pSetLayouts |-> <<h>>,
           pushConstantRangeCount |-> 0, pPushConstantRanges |-> <<>>] :
            h \in AppHandles \cup {NullHandle}}

NoHash == [kind |-> "none", handle |-> NullHandle, result |-> <<>>]

InitHandles ==
    /\ SupervisorOff
    /\ vpc = [pc |-> "calls", R |-> NewRecorder, installed |-> [k \in ApiKinds |-> <<>>],
              calls |-> 0, got |-> NoHash]

\* hash = Hashing::compute_hash_<kind>(recorder, info);
\* recorder.register_<kind>(hash, info)
RegisterCall(k, info) ==
    /\ vpc.pc = "calls"
    /\ vpc.calls < MaxCalls
    /\ \E hash \in {compute_hash(vpc.R, k, info)} \ {UnknownHandle} :
        vpc' = [vpc EXCEPT !.R = Register(@, k, hash, info), !.calls = @ + 1, !.got = NoHash]
    /\ UNCHANGED SupervisorVars

\* recorder.set_<kind>_handle(index, handle), index being a registered one
SetHandleCall(k, index, handle) ==
    /\ vpc.pc = "calls"
    /\ vpc.calls < MaxCalls
    /\ index < Len(vpc.R.reg[k])
    /\ vpc' = [vpc EXCEPT
            !.R = SetHandle(@, k, index, handle),
            !.installed[k] = [h \in (DOMAIN @) \cup {handle} |->
                                IF h = handle THEN index ELSE @[h]],
            !.calls = @ + 1,
            !.got = NoHash]
    /\ UNCHANGED SupervisorVars

\* recorder.get_hash_for_<kind>(handle)
GetHashCall(k, handle) ==
    /\ vpc.pc = "calls"
    /\ vpc.calls < MaxCalls
    /\ vpc' = [vpc EXCEPT
            !.calls = @ + 1,
            !.got = [kind |-> k, handle |-> handle, result |-> GetHashFor(vpc.R, k, handle)]]
    /\ UNCHANGED SupervisorVars

NextHandles ==
    \/ \E k \in ApiKinds : \E info \in ApiInfos(k) : RegisterCall(k, info)
    \/ \E k \in ApiKinds, index \in 0..(MaxCalls - 1), handle \in AppHandles :
            SetHandleCall(k, index, handle)
    \/ \E k \in ApiKinds, handle \in AppHandles \cup {NullHandle} : GetHashCall(k, handle)

SpecHandles == InitHandles /\ [][NextHandles]_vars

\* ------------------------------------------------ the master and any child
\* The master run with a child that is not held to run_slave_process: it
\* writes the protocol's lines in any order and number and leaves with any
\* exit code.  The master's code relies on nothing else about its child.
MaxWrites == 3
MaxAnySpawns == 1

AnyMessages ==
    {Message("CRASH", <<"\n">>, -1)}
    \cup {Message("GRAPHICS", <<" ">> \o FormatDec(g) \o <<"\n">>, -1) : g \in 0..MaxGraphics}
    \cup {Message("COMPUTE", <<" ">> \o FormatDec(c) \o <<"\n">>, -1) : c \in 0..MaxCompute}
    \cup {Message("MODULE", <<" ">> \o FormatHex(h) \o <<"\n">>, h) : h \in {HashPool[1]}}

InitAnyChild ==
    \E attached \in BOOLEAN : InitWith("start", 1, MaxGraphics, MaxCompute, attached)

\* The child writes one line to its end of the pipe.
ChildWrites(i) ==
    /\ worker[i].state = "startup"
    /\ worker[i].hpc < MaxWrites
    /\ tally.spawns <= MaxAnySpawns
    /\ \E msg \in AnyMessages :
        /\ pipe' = [pipe EXCEPT ![i] = Append(@, msg)]
        /\ WorkerStep(i, [worker[i] EXCEPT
                            !.hpc = @ + 1,
                            !.wrote = IF msg.cmd = "MODULE" THEN @ \cup {msg.hash} ELSE @])
    /\ UNCHANGED crashes

\* The child ends with some exit code (the number of lines it wrote is kept
\* for the history).
ChildExits(i) ==
    /\ worker[i].state = "startup"
    /\ \E code \in 0..2 :
        WorkerStep(i, [Exited(worker[i], code) EXCEPT !.hpc = worker[i].hpc])
    /\ UNCHANGED <<pipe, crashes>>

NextAnyChild ==
    \/ MasterStart
    \/ MasterSpawn
    \/ MasterFinish
    \/ \E i \in Slots : MasterPipeEvent(i)
    \/ \E i \in Slots : MasterProcessExit(i)
    \/ \E i \in Slots : MasterTimeout(i)
    \/ \E i \in Slots : TimerExpire(i)
    \/ \E i \in Slots : ChildWrites(i)
    \/ \E i \in Slots : ChildExits(i)

SpecAnyChild == InitAnyChild /\ [][NextAnyChild]_vars

\* ------------------------------------------------------ crash_handler
\* The crash handler of a worker on its own, with the outcomes write_all can
\* have.  The handler is installed before global_replayer is set and taken
\* out after it is cleared: it can be entered while global_replayer is null.
InitHandler ==
    /\ SupervisorOff
    /\ \E failed \in FailedLists, g \in 0..MaxGraphics, c \in 0..MaxCompute,
          set \in BOOLEAN :
        vpc = [pc |-> "running",
               global_replayer |-> set,
               w |-> [failed_module_hashes |-> failed,
                      current_graphics_index |-> g,
                      current_compute_index |-> c],
               hpc |-> 0, out |-> <<>>, write_failed |-> FALSE,
               teardown |-> FALSE, code |-> -1]

\* What the handler writes when no write fails: CRASH, and the report only
\* "if (global_replayer)".
HandlerWrites(v) ==
    IF v.global_replayer THEN HandlerMessages(v.w) ELSE <<HandlerMessages(v.w)[1]>>

\* ExitProcess(2).
ExitProcess2(v) == [v EXCEPT !.pc = "exited", !.code = 2]

\* Variant of WriteFails: the handler goes on to its next write.
WriteFailsMutantGoesOn(v) == [v EXCEPT !.hpc = @ + 1, !.write_failed = TRUE]

\* write_all returned false: ExitProcess(2) there and then.
WriteFails(v) == ExitProcess2([v EXCEPT !.write_failed = TRUE])

\* write_all returned true.
WriteDone(v) == [v EXCEPT !.hpc = @ + 1, !.out = Append(@, HandlerWrites(v)[v.hpc])]

\* An unhandled exception or abort(): crash_handler is entered.
HandlerEnter ==
    /\ vpc.pc = "running"
    /\ vpc' = [vpc EXCEPT !.pc = "handler", !.hpc = 1]
    /\ UNCHANGED SupervisorVars

HandlerWrite ==
    /\ vpc.pc = "handler"
    /\ vpc.hpc <= Len(HandlerWrites(vpc))
    /\ \E ok \in BOOLEAN : vpc' = IF ok THEN WriteDone(vpc) ELSE WriteFails(vpc)
    /\ UNCHANGED SupervisorVars

\* All writes are done: emergency_teardown is called if there is a replayer,
\* ExitProcess(2) is reached otherwise.
HandlerTeardown ==
    /\ vpc.pc = "handler"
    /\ vpc.hpc > Len(HandlerWrites(vpc))
    /\ vpc' = IF vpc.global_replayer
              THEN [vpc EXCEPT !.pc = "teardown", !.teardown = TRUE]
              ELSE ExitProcess2(vpc)
    /\ UNCHANGED SupervisorVars

\* emergency_teardown returns (it may never).
HandlerExit ==
    /\ vpc.pc = "teardown"
    /\ vpc' = ExitProcess2(vpc)
    /\ UNCHANGED SupervisorVars

NextHandler == HandlerEnter \/ HandlerWrite \/ HandlerTeardown \/ HandlerExit

SpecHandler == InitHandler /\ [][NextHandler]_vars

\* ---------------------------------------------------- the shared mutex
\* parse() of MODULE lines with the control block attached, and the named
\* mutex it shares with the other writers of the ring buffer (the workers;
\* their side is taken from the specification's text: wait, write, release).
\* A mutex whose owner ends without releasing it is abandoned: the next wait
\* returns WAIT_ABANDONED and makes the waiter the owner.
MaxModuleLines == 2
Others == {"w1", "w2"}

InitMutex ==
    /\ SupervisorOff
    /\ vpc = [pc |-> "idle", lines |-> MaxModuleLines, banned_modules |-> 0,
              owner |-> "none", count |-> 0, abandoned |-> FALSE,
              other |-> [k \in Others |-> "idle"],
              ring |-> 0, waited |-> "none"]

\* The outcomes WaitForSingleObject(shared_mutex, INFINITE) can have for the
\* master in state v; none when another process owns the mutex (the call
\* blocks).
WaitOutcomes(v) ==
    {"WAIT_FAILED"}
    \cup (IF v.owner = "master" THEN {"WAIT_OBJECT_0"}
          ELSE IF v.owner # "none" THEN {}
          ELSE IF v.abandoned THEN {"WAIT_ABANDONED"} ELSE {"WAIT_OBJECT_0"})

\* The mutex after the master's wait returned outcome o.
Acquired(v, o) ==
    IF o = "WAIT_FAILED" THEN v
    ELSE [v EXCEPT !.owner = "master", !.count = @ + 1, !.abandoned = FALSE]

\* Variant of AfterWait: WAIT_ABANDONED is taken like WAIT_OBJECT_0.
AfterWaitMutantAbandonedToo(v, o) ==
    [Acquired(v, o) EXCEPT !.pc = IF o \in {"WAIT_OBJECT_0", "WAIT_ABANDONED"}
                                 THEN "write" ELSE "idle",
                           !.waited = o]

\* "if (WaitForSingleObject(...) == WAIT_OBJECT_0)": the write and the
\* release follow only then; parse() returns otherwise.
AfterWait(v, o) ==
    [Acquired(v, o) EXCEPT !.pc = IF o = "WAIT_OBJECT_0" THEN "write" ELSE "idle",
                           !.waited = o]

\* ReleaseMutex by the master.
Released(v) ==
    [v EXCEPT !.count = @ - 1, !.owner = IF v.count = 1 THEN "none" ELSE @]

\* parse() of a MODULE line up to the wait: banned_modules.fetch_add(1).
MutexParseModule ==
    /\ vpc.pc = "idle"
    /\ vpc.lines > 0
    /\ vpc' = [vpc EXCEPT !.pc = "wait", !.lines = @ - 1, !.banned_modules = @ + 1,
                          !.waited = "none"]
    /\ UNCHANGED SupervisorVars

MutexWait ==
    /\ vpc.pc = "wait"
    /\ \E o \in WaitOutcomes(vpc) : vpc' = AfterWait(vpc, o)
    /\ UNCHANGED SupervisorVars

\* shared_control_block_write.
MutexWrite ==
    /\ vpc.pc = "write"
    /\ vpc' = [vpc EXCEPT !.pc = "release", !.ring = @ + 1]
    /\ UNCHANGED SupervisorVars

MutexRelease ==
    /\ vpc.pc = "release"
    /\ vpc' = [Released(vpc) EXCEPT !.pc = "idle"]
    /\ UNCHANGED SupervisorVars

\* Another writer's wait returns: it owns the mutex.
OtherAcquire(k) ==
    /\ vpc.other[k] = "idle"
    /\ vpc.owner = "none"
    /\ vpc' = [vpc EXCEPT !.owner = k, !.abandoned = FALSE, !.other[k] = "inside"]
    /\ UNCHANGED SupervisorVars

OtherWrite(k) ==
    /\ vpc.other[k] = "inside"
    /\ vpc' = [vpc EXCEPT !.ring = @ + 1, !.other[k] = "wrote"]
    /\ UNCHANGED SupervisorVars

OtherRelease(k) ==
    /\ vpc.other[k] = "wrote"
    /\ vpc' = [vpc EXCEPT !.owner = "none", !.other[k] = "done"]
    /\ UNCHANGED SupervisorVars

\* Another writer ends (it crashed, or the master terminated it): a mutex
\* it owns is abandoned.
OtherDies(k) ==
    /\ vpc.other[k] # "dead"
    /\ vpc' = [vpc EXCEPT !.other[k] = "dead",
                          !.owner = IF vpc.owner = k THEN "none" ELSE @,
                          !.abandoned = IF vpc.owner = k THEN TRUE ELSE @]
    /\ UNCHANGED SupervisorVars

NextMutex ==
    \/ MutexParseModule
    \/ MutexWait
    \/ MutexWrite
    \/ MutexRelease
    \/ \E k \in Others : OtherAcquire(k)
    \/ \E k \in Others : OtherWrite(k)
    \/ \E k \in Others : OtherRelease(k)
    \/ \E k \in Others : OtherDies(k)

SpecMutex == InitMutex /\ [][NextMutex]_vars

\* -------------------------------------------------------------- open_shm
\* The attach of the control block in the master and the stores the run
\* makes to it afterwards.  ControlBlockMagic and sizeof(SharedControlBlock)
\* come from a header that is not part of the sources at hand: the values
\* here stand for them (the header of the specification's layout has eight
\* 32-bit fields).
ControlBlockMagic == 4660
SizeofSharedControlBlock == 32
MaxAttachEvents == 2

RECURSIVE BitAnd(_, _)
BitAnd(a, b) ==
    IF a = 0 \/ b = 0 THEN 0
    ELSE (a % 2) * (b % 2) + 2 * BitAnd(a \div 2, b \div 2)

\* is_pot: (size & (size - 1)) == 0; for size 0 the subtraction wraps to all
\* ones and the conjunction is 0.
is_pot(size) == IF size = 0 THEN TRUE ELSE BitAnd(size, size - 1) = 0

\* Variant of Corrupt: without the test of ring_buffer_size against 0.
CorruptMutantNoZeroTest(b) ==
    \/ b.version_cookie # ControlBlockMagic
    \/ b.ring_buffer_offset < SizeofSharedControlBlock
    \/ ~is_pot(b.ring_buffer_size)

\* The test "Detect some obvious shenanigans".
Corrupt(b) ==
    \/ b.version_cookie # ControlBlockMagic
    \/ b.ring_buffer_offset < SizeofSharedControlBlock
    \/ b.ring_buffer_size = 0
    \/ ~is_pot(b.ring_buffer_size)

SharedControlBlock(cookie, offset, size) ==
    [version_cookie |-> cookie, ring_buffer_offset |-> offset, ring_buffer_size |-> size,
     banned_modules |-> 0, clean_process_deaths |-> 0, dirty_process_deaths |-> 0,
     progress_started |-> 0, progress_complete |-> 0]

\* The mapped region as the run finds it, and whether a mutex of the given
\* name exists.  block0 keeps the region as it was.
InitAttach ==
    /\ SupervisorOff
    /\ \E cookie \in {ControlBlockMagic, ControlBlockMagic + 1, 0},
          offset \in {0, SizeofSharedControlBlock - 1, SizeofSharedControlBlock,
                      SizeofSharedControlBlock + 32},
          size \in {0, 1, 2, 3, 64, 96, 65536},
          mutex \in BOOLEAN :
        vpc = [pc |-> "setup",
               block |-> SharedControlBlock(cookie, offset, size),
               block0 |-> SharedControlBlock(cookie, offset, size),
               mutex_exists |-> mutex,
               control_block |-> "null", shared_mutex |-> FALSE,
               events |-> 0]

\* open_shm (the mapping is there), and "if (... && !open_shm(...)) return
\* EXIT_FAILURE" in run_master_process.
OpenShm ==
    /\ vpc.pc = "setup"
    /\ vpc' = [vpc EXCEPT !.control_block = IF Corrupt(vpc.block) THEN "null" ELSE "mapped",
                          !.shared_mutex = vpc.mutex_exists,
                          !.pc = IF vpc.mutex_exists THEN "attached" ELSE "failed"]
    /\ UNCHANGED SupervisorVars

\* A store or fetch_add under "if (Global::control_block)".
Store(v, field, value) ==
    IF v.control_block = "mapped" THEN [v EXCEPT !.block[field] = value] ELSE v

\* progress_started.store(1) before the spawn loop.
AttachStarted ==
    /\ vpc.pc = "attached"
    /\ vpc' = [Store(vpc, "progress_started", 1) EXCEPT !.pc = "loop"]
    /\ UNCHANGED SupervisorVars

\* In the loop: a MODULE line, a dirty death or a clean death is counted.
AttachCount ==
    /\ vpc.pc = "loop"
    /\ vpc.events < MaxAttachEvents
    /\ \E field \in {"banned_modules", "dirty_process_deaths", "clean_process_deaths"} :
        vpc' = [Store(vpc, field, vpc.block[field] + 1) EXCEPT !.events = @ + 1]
    /\ UNCHANGED SupervisorVars

\* progress_complete.store(1) after the loop.
AttachComplete ==
    /\ vpc.pc = "loop"
    /\ vpc' = [Store(vpc, "progress_complete", 1) EXCEPT !.pc = "done"]
    /\ UNCHANGED SupervisorVars

NextAttach == OpenShm \/ AttachStarted \/ AttachCount \/ AttachComplete

SpecAttach == InitAttach /\ [][NextAttach]_vars

\* ------------------------------------- the state blocks of a graphics pipeline
\* One VkGraphicsPipelineCreateInfo is hashed: some of its state blocks are
\* null, the others carry flags that differ from every count, and its one
\* color-blend attachment has the given blendEnable and one factor set to
\* the given value.
BlockNames ==
    {"pDynamicState", "pDepthStencilState", "pInputAssemblyState", "pRasterizationState",
     "pMultisampleState", "pViewportState", "pVertexInputState", "pColorBlendState",
     "pTessellationState"}

FactorFields ==
    {"dstAlphaBlendFactor", "srcAlphaBlendFactor", "dstColorBlendFactor",
     "srcColorBlendFactor"}

BlockFlags == 7

\* info with blend factor `field` of its attachment set, blendEnable as
\* given, a tessellation block, the blocks of `absent` null and the flags of
\* the others set.
WithBlocks(info, absent, enable, field, factor) ==
    LET a == [[info.pColorBlendState.pAttachments[1] EXCEPT !.srcColorBlendFactor = "ONE"]
                EXCEPT ![field] = factor, !.blendEnable = enable]
        full == [info EXCEPT !.pColorBlendState.pAttachments = <<a>>,
                             !.pTessellationState = [present |-> TRUE, flags |-> 0,
                                                     patchControlPoints |-> 3]]
    IN  [f \in DOMAIN full |->
            IF f \in absent THEN NoBlock
            ELSE IF f \in BlockNames /\ full[f].present
                 THEN [full[f] EXCEPT !.flags = BlockFlags]
                 ELSE full[f]]

\* What each block of compute_hash_graphics_pipeline feeds.
BlockTokens(info) ==
    [pDynamicState |-> HashDynamicState(info),
     pDepthStencilState |-> HashDepthStencilState(info),
     pInputAssemblyState |-> HashInputAssemblyState(info),
     pRasterizationState |-> HashRasterizationState(info),
     pMultisampleState |-> HashMultisampleState(info),
     pViewportState |-> HashViewportState(info),
     pVertexInputState |-> HashVertexInputState(info),
     pColorBlendState |-> HashColorBlendState(info),
     pTessellationState |-> HashTessellationState(info)]

InitBlocks ==
    /\ SupervisorOff
    /\ \E D \in {{}, {"BLEND_CONSTANTS"}, {"LINE_WIDTH", "SCISSOR"}},
          absent \in {{}} \cup {{f} : f \in BlockNames \ {"pDynamicState"}}
                       \cup {BlockNames \ {"pDynamicState"}},
          enable \in {0, 1},
          field \in FactorFields,
          factor \in {"ONE", "CONSTANT_COLOR", "CONSTANT_ALPHA",
                      "ONE_MINUS_CONSTANT_COLOR", "ONE_MINUS_CONSTANT_ALPHA"} :
        vpc = [pc |-> "new",
               info |-> WithBlocks(GraphicsPipelineInfo(D, 1, 1, 1, "ONE"),
                                   absent, enable, field, factor),
               enable |-> enable, factor |-> factor, dynamic |-> D,
               hash |-> <<>>, parts |-> <<>>]

HashBlocks ==
    /\ vpc.pc = "new"
    /\ \E h \in {compute_hash_graphics_pipeline(HashRecorder, vpc.info)},
          parts \in {BlockTokens(vpc.info)} :
        vpc' = [vpc EXCEPT !.pc = "hashed", !.hash = h, !.parts = parts]
    /\ UNCHANGED SupervisorVars

NextBlocks == HashBlocks

SpecBlocks == InitBlocks /\ [][NextBlocks]_vars

\* ------------------------------------------------------ ScratchAllocator
\* allocate_raw is called a few times on one allocator.  A block is its
\* size and its offset (0 in a new block); regions is the history of what
\* the calls returned: the block, the offset in it, and the arguments.
\* depth counts the calls allocate_raw has made to itself in the present
\* call.
MaxAllocs == 3       \* calls of allocate_raw on the allocator
MaxBlocks == 3       \* blocks the allocator may hold
MinBlockSize == 65536

AllocSizes == {0, 1, 3, 8, 100000}
AllocAlignments == {1, 2, 4, 8}

\* Block::Block(size)
NewBlock(size) == [size |-> size, offset |-> 0]

\* add_block(minimum_size)
AddBlock(blocks, minimum_size) ==
    Append(blocks, NewBlock(IF minimum_size < MinBlockSize THEN MinBlockSize
                            ELSE minimum_size))

\* (block.offset + alignment - 1) & ~alignment: with alignment a power of
\* two, ~alignment has every bit set but the one of alignment.
AlignedOffset(offset, alignment) ==
    (offset + alignment - 1) - BitAnd(offset + alignment - 1, alignment)

InitAlloc ==
    /\ SupervisorOff
    /\ vpc = [pc |-> "idle", size |-> 0, alignment |-> 1, calls |-> 0, depth |-> 0,
              blocks |-> <<>>, regions |-> <<>>]

\* A caller enters allocate_raw(size, alignment).
AllocCall(size, alignment) ==
    /\ vpc.pc = "idle"
    /\ vpc.calls < MaxAllocs
    /\ vpc' = [vpc EXCEPT !.pc = "running", !.size = size, !.alignment = alignment,
                          !.calls = @ + 1, !.depth = 0]
    /\ UNCHANGED SupervisorVars

\* One activation of allocate_raw with the blocks B it works on: it
\* returns a pointer into the last block, or adds a block and calls
\* itself.
Activation(B) ==
    \E offset \in {AlignedOffset(B[Len(B)].offset, vpc.alignment)} :
        \E required_size \in {offset + vpc.size} :
            IF required_size <= vpc.size
            THEN vpc' = [vpc EXCEPT
                    !.pc = "idle",
                    !.blocks = [B EXCEPT ![Len(B)].offset = required_size],
                    !.regions = Append(@, [block |-> Len(B), offset |-> offset,
                                           size |-> vpc.size,
                                           alignment |-> vpc.alignment])]
            ELSE /\ Len(B) < MaxBlocks
                 /\ vpc' = [vpc EXCEPT
                        !.blocks = AddBlock(B, vpc.size + vpc.alignment),
                        !.depth = @ + 1]

AllocateRaw ==
    /\ vpc.pc = "running"
    /\ \E B \in {IF vpc.blocks = <<>> THEN AddBlock(<<>>, vpc.size + vpc.alignment)
                  ELSE vpc.blocks} : Activation(B)
    /\ UNCHANGED SupervisorVars

NextAlloc ==
    \/ \E size \in AllocSizes, alignment \in AllocAlignments : AllocCall(size, alignment)
    \/ AllocateRaw

SpecAlloc == InitAlloc /\ [][NextAlloc]_vars

\* --------------------------------------------------- the scheduling
\* The master is one thread that keeps running: it starts, goes through the
\* spawn loop and, in the wait loop, serves a signaled handle whenever there
\* is one.  A timer that was set fires.  Nothing is assumed of the workers.
MasterStep ==
    \/ MasterStart
    \/ MasterSpawn
    \/ MasterFinish
    \/ \E i \in Slots : MasterPipeEvent(i)
    \/ \E i \in Slots : MasterProcessExit(i)
    \/ \E i \in Slots : MasterTimeout(i)

\* The control block takes no part in the scheduling: it is attached.
InitFair ==
    \E P \in 1..MaxProcs, ng \in 0..MaxGraphics, nc \in 0..MaxCompute :
        InitWith("start", P, ng, nc, TRUE)

FairSpec ==
    /\ InitFair
    /\ [][Next]_vars
    /\ WF_vars(MasterStep)
    /\ \A i \in 0..(MaxProcs - 1) : WF_vars(i \in Slots /\ TimerExpire(i))

\* ------------------------------------------------ properties of the run
\* The slot the master's latest decision was about, as it is now.
Slot == child_processes[last.slot]

\* The latest step of the master was a process_shutdown.
ShutDown == last.op \in {"exit", "timeout"}

\* start_graphics_index + start_compute_index of a ProcessProgress
StartSum(r) == r.start_graphics_index + r.start_compute_index

\* C1: when process_shutdown decides about a slot, no message its worker
\* wrote is still unread in the pipe: every hash the worker wrote in a MODULE
\* message has been parsed into the blacklist, and the progress of a worker
\* that wrote both markers is the one recorded.
C1_MessagesParsedBeforeDecision ==
    ShutDown =>
        /\ last.lost = <<>>
        /\ last.written \subseteq reported
        /\ last.written \subseteq faulty_spirv_modules
        /\ last.stage = "teardown" => (last.gp = last.at_g /\ last.cp = last.at_c)

\* A worker was terminated with two or more messages, a MODULE among what it
\* wrote, still unread in its pipe.
C1_Witness ==
    /\ last.op = "timeout"
    /\ last.unread >= 2
    /\ last.written # {}

\* C2: the blacklist never loses a hash, and it holds the hash of every
\* MODULE message parsed so far.
C2_BlacklistGrows ==
    /\ [](reported \subseteq faulty_spirv_modules)
    /\ [][faulty_spirv_modules \subseteq faulty_spirv_modules']_vars

\* Two MODULE messages with different hashes have been parsed.
C2_Witness ==
    /\ Cardinality(reported) = 2
    /\ faulty_spirv_modules = reported

\* C3 as stated: a worker that has read its stdin masks every hash that was
\* in the blacklist when it was spawned.
C3_WorkerMasksBlacklist ==
    \A i \in Slots :
        worker[i].state \in {"replay", "handler", "teardown"}
            => worker[i].given \subseteq worker[i].masked

C5_RespawnStrictlyLater ==
    (ShutDown /\ last.spawned) => StartSum(Slot) > StartSum(last.before)

\* floor(i * n / p) computed without a product that could overflow.
ExactBound(i, n, p) == i * (n \div p) + (i * (n % p)) \div p

\* The ranges of one kind assigned so far are those of the exact quotients for
\* count n, they follow one another from 0 and, once all are assigned, end at n.
ExactRanges(n, start(_), end(_)) ==
    /\ \A i \in 0..(next_i - 1) :
        /\ start(i) = ExactBound(i, n, processes)
        /\ end(i) = ExactBound(i + 1, n, processes)
        /\ start(i) <= end(i)
        /\ start(i) = IF i = 0 THEN 0 ELSE end(i - 1)
    /\ next_i = processes => end(processes - 1) = n

\* C6 as stated: for every count N and every P >= 1 slot i gets
\* [floor(i*N/P), floor((i+1)*N/P)), for the graphics and for the compute
\* count, and the P ranges of a kind tile [0, N).
C6_PartitionIsExact ==
    /\ ExactRanges(num_graphics_pipelines,
                   LAMBDA i : child_processes[i].start_graphics_index,
                   LAMBDA i : child_processes[i].end_graphics_index)
    /\ ExactRanges(num_compute_pipelines,
                   LAMBDA i : child_processes[i].start_compute_index,
                   LAMBDA i : child_processes[i].end_compute_index)

\* The hashes on the stdin lines of a worker.
StdinHashes(w) == {Strtoull16(w.stdin[k]) : k \in 1..Len(w.stdin)}

\* A worker exited with a non-zero code and process_shutdown had both of its
\* progress markers.
CrashWithProgress == ShutDown /\ last.code # 0 /\ last.gp >= 0 /\ last.cp >= 0

\* The slot of the latest decision keeps its end indices and restarts at
\* the reported progress.
RangeMovedToProgress ==
    /\ Slot.end_graphics_index = last.before.end_graphics_index
    /\ Slot.end_compute_index = last.before.end_compute_index
    /\ Slot.start_graphics_index = last.gp
    /\ Slot.start_compute_index = last.cp

\* A new worker runs in the slot of the latest decision: over the slot's
\* range, with the whole blacklist, the dead worker's hashes in it, on stdin.
FreshWorker ==
    /\ Slot.process
    /\ worker[last.slot].state = "startup"
    /\ worker[last.slot].start_graphics_index = last.gp
    /\ worker[last.slot].end_graphics_index = Slot.end_graphics_index
    /\ worker[last.slot].start_compute_index = last.cp
    /\ worker[last.slot].end_compute_index = Slot.end_compute_index
    /\ StdinHashes(worker[last.slot]) = faulty_spirv_modules
    /\ Len(worker[last.slot].stdin) = Cardinality(faulty_spirv_modules)
    /\ last.written \subseteq faulty_spirv_modules

\* Nothing runs in the slot of the latest decision.
NoNewWorker ==
    /\ ~last.spawned
    /\ ~Slot.process
    /\ worker[last.slot].state = "none"

\* Something of the slot's range lies at or after the reported progress.
RangeRemains ==
    \/ last.gp < Slot.end_graphics_index
    \/ last.cp < Slot.end_compute_index

\* C7 as stated: after a non-zero exit with progress g, c observed, a fresh
\* worker runs over [g, end_graphics) and [c, end_compute), end indices
\* unchanged, with the enlarged blacklist.
C7_CrashWithProgressRespawns ==
    CrashWithProgress => (RangeMovedToProgress /\ FreshWorker)

\* C7, amended: the same, when one of the two remaining ranges is not empty;
\* when both are empty no process is created and the slot is retired.
C7_CrashWithProgressRespawnsIfRangeRemains ==
    CrashWithProgress =>
        /\ RangeMovedToProgress
        /\ IF RangeRemains THEN FreshWorker ELSE NoNewWorker

\* A crashed worker that had reported a module was replaced.
C7_Witness ==
    /\ last.op = "exit"
    /\ last.code = 2
    /\ last.written # {}
    /\ last.spawned
    /\ worker[last.slot].state = "startup"

\* A worker exited with a non-zero code and no progress marker was parsed.
EarlyCrash == ShutDown /\ last.code # 0 /\ last.gp < 0 /\ last.cp < 0

Bump(attached) == IF attached THEN 1 ELSE 0

\* C8: after a non-zero exit without any progress marker the slot is not
\* respawned, now or later; dirty_process_deaths went up by one (with a
\* control block) and clean_process_deaths did not change.
C8_EarlyCrashRetiresSlot ==
    /\ [](EarlyCrash =>
            /\ ~last.respawn
            /\ NoNewWorker
            /\ control_block.dirty_process_deaths
                 = last.dirty0 + Bump(control_block.attached)
            /\ control_block.clean_process_deaths = last.clean0)
    /\ [][\A i \in Slots :
            (mpc = "loop" /\ ~child_processes[i].process)
                => ~child_processes'[i].process]_vars

\* A worker failed without a message, under an attached control block.
C8_Witness ==
    /\ EarlyCrash
    /\ last.op = "exit"
    /\ control_block.attached
    /\ control_block.dirty_process_deaths = 1

\* The worker of slot i has written CRASH, its MODULE messages, GRAPHICS and
\* COMPUTE, and is in emergency_teardown.
Hung(i) == i \in Slots /\ worker[i].state = "teardown"

\* The worker of slot i has left by itself: ExitProcess(2).  When that happens
\* just as the master is about to terminate it, the master gives up.
LeftByItself(i) ==
    \/ i \in Slots /\ worker[i].state = "exited" /\ worker[i].code = 2
    \/ mpc = "failed"

\* The master's latest step terminated, on its timer, a worker that was in
\* emergency_teardown.
HungTimedOut == last.op = "timeout" /\ last.stage = "teardown"

\* The terminated worker was reaped with code 3 and the slot restarts at the
\* worker's own counters g, c.
TerminatedAtProgress ==
    /\ last.code = 3
    /\ last.gp = last.at_g
    /\ last.cp = last.at_c
    /\ RangeMovedToProgress

\* C9 as stated, for the decision it ends in: a worker terminated on its
\* timer after it had sent CRASH, GRAPHICS g and COMPUTE c is replaced by a
\* worker over [g, end_graphics) and [c, end_compute).
C9_HungWorkerIsRetried ==
    HungTimedOut => (TerminatedAtProgress /\ FreshWorker)

\* C9, amended: a worker hung after CRASH, GRAPHICS g, COMPUTE c does not stay
\* so forever.  Unless it leaves by itself, its timer fires, the master
\* terminates it with code 3, runs process_shutdown with progress g, c, and
\* starts a worker over [g, end_graphics) and [c, end_compute) when one of
\* the two is not empty; when both are empty the slot is retired.
C9_HungWorkerIsTerminated ==
    /\ \A i \in 0..(MaxProcs - 1) :
        Hung(i) ~> (LeftByItself(i) \/ (HungTimedOut /\ last.slot = i))
    /\ [](HungTimedOut =>
            /\ TerminatedAtProgress
            /\ IF RangeRemains THEN FreshWorker ELSE NoNewWorker)

\* A worker hung in its teardown, everything it wrote already parsed, was
\* terminated and replaced.
C9_Witness ==
    /\ last.op = "timeout"
    /\ last.stage = "teardown"
    /\ last.unread = 0
    /\ last.code = 3
    /\ last.spawned

\* C10 as stated: a worker terminated on timer expiry (the timer is only ever
\* set by its CRASH) is respawned over the recorded progress, and
\* dirty_process_deaths is not incremented.
C10_TimeoutRespawns ==
    last.op = "timeout" =>
        /\ last.spawned
        /\ control_block.dirty_process_deaths = last.dirty0

\* C10, amended: when the worker had written both progress markers before it
\* was terminated, dirty_process_deaths is not incremented,
\* clean_process_deaths is, and the slot is respawned over the recorded
\* progress if one of the remaining ranges is not empty.  When it was
\* terminated before it had written both markers, the exit is an early crash:
\* dirty_process_deaths is incremented and the slot is not respawned.
C10_TimeoutRespawnsAfterMarkers ==
    last.op = "timeout" =>
        IF last.stage = "teardown"
        THEN /\ control_block.dirty_process_deaths = last.dirty0
             /\ control_block.clean_process_deaths
                  = last.clean0 + Bump(control_block.attached)
             /\ RangeMovedToProgress
             /\ IF RangeRemains THEN FreshWorker ELSE NoNewWorker
        ELSE /\ control_block.dirty_process_deaths
                  = last.dirty0 + Bump(control_block.attached)
             /\ control_block.clean_process_deaths = last.clean0
             /\ NoNewWorker

\* A stalled worker that had written its markers was terminated and respawned,
\* counted as a clean death.
C10_Witness ==
    /\ last.op = "timeout"
    /\ last.stage = "teardown"
    /\ control_block.attached
    /\ control_block.clean_process_deaths = last.clean0 + 1
    /\ control_block.dirty_process_deaths = last.dirty0
    /\ last.spawned

\* run_master_process has returned EXIT_SUCCESS under an attached control
\* block, a process was created for every slot, and every exit code read
\* was 0.
AllExitedZero ==
    /\ mpc = "done"
    /\ control_block.attached
    /\ tally.spawns = processes
    /\ tally.codes = {0}

\* C11 as stated: after a run in which all P workers exit with code 0 the
\* control block has progress_complete = 1, clean_process_deaths = P and
\* dirty_process_deaths = 0.
C11_CleanDeathsCountExits ==
    AllExitedZero =>
        /\ control_block.progress_complete = 1
        /\ control_block.clean_process_deaths = processes
        /\ control_block.dirty_process_deaths = 0

\* C11, amended: after such a run progress_complete = 1 and both
\* clean_process_deaths and dirty_process_deaths are 0: an exit with code 0
\* is no death.
C11_ExitZeroIsNoDeath ==
    AllExitedZero =>
        /\ control_block.progress_complete = 1
        /\ control_block.clean_process_deaths = 0
        /\ control_block.dirty_process_deaths = 0

\* Two workers ran and both exited with code 0.
C11_Witness ==
    /\ AllExitedZero
    /\ processes = 2
    /\ tally.completes = 1

\* The archive holds no pipeline at all.
ZeroPipelines == num_graphics_pipelines = 0 /\ num_compute_pipelines = 0

\* C12 as stated, for its first part: with zero pipelines a worker process
\* has been created for each of the P slots once the spawn loop is through.
C12_ZeroPipelinesSpawnWorkers ==
    (ZeroPipelines /\ mpc \in {"loop", "done"}) => tally.spawns = processes

\* C12, amended: with zero graphics and zero compute pipelines no worker
\* process is ever created (start_child_process has nothing to do for an
\* empty range), the loop is left at once, run_master_process returns and
\* progress_complete is stored exactly once.
C12_ZeroPipelinesSpawnNothing ==
    /\ [](ZeroPipelines =>
            /\ tally.spawns = 0
            /\ tally.codes = {}
            /\ active_processes = 0
            /\ \A i \in Slots : ~child_processes[i].process /\ worker[i].state = "none"
            /\ tally.completes <= 1
            /\ mpc # "failed")
    /\ ZeroPipelines ~>
            (mpc = "done" /\ control_block.progress_complete = 1 /\ tally.completes = 1)

\* A run of two slots over an empty archive has returned.
C12_Witness ==
    /\ ZeroPipelines
    /\ processes = 2
    /\ mpc = "done"
    /\ tally.completes = 1
    /\ tally.spawns = 0

\* The messages of slot i's crash episode that the master has not parsed
\* yet start with CRASH, or CRASH was parsed already (the timer exists).
CrashLeads(i) ==
    pipe[i] # <<>> =>
        \/ pipe[i][1].cmd = "CRASH" /\ child_processes[i].timer_handle = "null"
        \/ pipe[i][1].cmd # "CRASH" /\ child_processes[i].timer_handle # "null"

UnderJob(i) == job.handle # "null" /\ job.limit /\ job.assigned[i]

\* C14 as stated: every spawned worker whose main thread has run is a member
\* of the kill-on-close job object, and no worker outlives the master.
C14_EveryWorkerInJob ==
    \A i \in Slots :
        /\ job.proc[i] = "running" => job.member[i] /\ job.limit
        /\ job.pc = "dead" => job.proc[i] # "running"

\* C14, amended: a worker for which CreateJobObjectA, SetInformationJobObject
\* and AssignProcessToJobObject succeeded is a member of the kill-on-close
\* job from before its main thread first runs until it exits, and the death
\* of the master ends it; the main thread never runs before the assignment
\* was tried (the child is created suspended and resumed after it).
C14_AssignedWorkerInJob ==
    \A i \in Slots :
        /\ UnderJob(i) =>
            /\ ~job.outside[i]
            /\ Alive(job.proc[i]) => job.member[i]
            /\ job.pc \in {"dead", "returned"} => ~Alive(job.proc[i])
        /\ job.proc[i] = "running" => job.pc # "assign" \/ job.slot # i
        /\ job.outside[i] => ~job.assigned[i]

\* The master died while two workers of the job were alive, and both were
\* ended with it.
C14_Witness ==
    /\ job.pc = "dead"
    /\ processes = 2
    /\ \A i \in Slots : UnderJob(i) /\ job.proc[i] = "killed"

\* The f32 tokens of a hash that hold a viewport rectangle's values.
ViewportTokens(h) == {n \in DOMAIN h : h[n][1] = "f32" /\ h[n][2] \in 11..17}

\* C15: two graphics pipelines that are equal except for the values of
\* fields overridden by dynamic states both declare feed the same token
\* sequence to the hasher and get the same hash, whatever the set of
\* declared dynamic states.
C15_DynamicStateMasksHash ==
    (vpc.pc = "hashed" /\ ~vpc.static) => vpc.h1 = vpc.h2

\* All nine dynamic states are declared, every test is enabled, the blend
\* uses a constant, and each overridden group of fields differs.
C15_Witness ==
    /\ vpc.pc = "hashed"
    /\ vpc.altered = DynamicStates
    /\ vpc.p1.pDepthStencilState.depthBoundsTestEnable = 1
    /\ vpc.p1.pDepthStencilState.stencilTestEnable = 1
    /\ vpc.p1.pRasterizationState.depthBiasEnable = 1
    /\ NeedBlendConstants(vpc.p1.pColorBlendState)
    /\ vpc.p1 # vpc.p2
    /\ vpc.h1 = vpc.h2

\* The two pipelines differ in nothing but a viewport rectangle (or in
\* pViewports being null), both declaring the viewport dynamic.
OnlyDynamicViewportDiffers ==
    vpc.pc = "hashed" /\ vpc.altered = {"VIEWPORT"} /\ ~vpc.static

\* The two pipelines differ in nothing but a viewport rectangle, neither
\* declaring the viewport dynamic.
OnlyStaticViewportDiffers ==
    vpc.pc = "hashed" /\ vpc.altered = {} /\ vpc.static

\* C16: of two graphics pipelines that differ only in a viewport rectangle,
\* when both declare VK_DYNAMIC_STATE_VIEWPORT no rectangle is hashed (also
\* with pViewports null), viewportCount is hashed all the same and the
\* hashes are equal; when neither declares it the rectangles are hashed and
\* the hashes differ.
C16_ViewportHashedUnlessDynamic ==
    /\ OnlyDynamicViewportDiffers =>
        /\ vpc.p1 # vpc.p2
        /\ ViewportTokens(vpc.h1) = {} /\ ViewportTokens(vpc.h2) = {}
        /\ vpc.h1 = vpc.h2
        /\ compute_hash_graphics_pipeline(HashRecorder,
                [vpc.p2 EXCEPT !.pViewportState.viewportCount = @ + 1]) # vpc.h2
    /\ OnlyStaticViewportDiffers =>
        /\ Cardinality(ViewportTokens(vpc.h1)) = 6 * vpc.p1.pViewportState.viewportCount
        /\ Cardinality(ViewportTokens(vpc.h2)) = 6 * vpc.p2.pViewportState.viewportCount
        /\ vpc.h1 # vpc.h2

\* Both cases: a null pViewports under the dynamic viewport state together
\* with other dynamic states, and a changed width with no dynamic viewport.
C16_Witness ==
    \/ /\ OnlyDynamicViewportDiffers
       /\ vpc.p2.pViewportState.pViewports = <<>>
       /\ Declares(vpc.p1, "SCISSOR")
    \/ /\ OnlyStaticViewportDiffers
       /\ Declares(vpc.p1, "SCISSOR")
       /\ vpc.p2.pViewportState.pViewports[1].width # vpc.p1.pViewportState.pViewports[1].width

\* The index an object has in its registry in recording c.
IndexIn(c, e) == c.R.to_index[KindOf(e)][c.handle[e]]

\* C17: the hash of an object depends on the hashes of the objects it
\* references, not on their indices or handles: every object recorded in
\* both recorders has the same hash in both, and each registry returns that
\* hash for the object's handle.
C17_HashIndependentOfOrder ==
    vpc.pc = "record" =>
        /\ \A e \in DOMAIN vpc.rec[1].hash \cap DOMAIN vpc.rec[2].hash :
                vpc.rec[1].hash[e] = vpc.rec[2].hash[e]
        /\ \A r \in {1, 2} : \A e \in DOMAIN vpc.rec[r].hash :
                /\ vpc.rec[r].hash[e] # UnknownHandle
                /\ GetHashFor(vpc.rec[r].R, KindOf(e), vpc.rec[r].handle[e]) = vpc.rec[r].hash[e]

\* Both recorders hold all fourteen objects, and the samplers, set layouts,
\* pipeline layouts, shader modules and render passes have other indices and
\* other handles in the second recorder than in the first.
C17_Witness ==
    /\ vpc.pc = "record"
    /\ DOMAIN vpc.rec[1].hash = EntitySet
    /\ DOMAIN vpc.rec[2].hash = EntitySet
    /\ \A e \in {"s1", "l1", "p1", "m1", "r1"} : IndexIn(vpc.rec[1], e) # IndexIn(vpc.rec[2], e)
    /\ \A e \in EntitySet : vpc.rec[1].handle[e] # vpc.rec[2].handle[e]
    /\ vpc.rec[1].hash["g2"] = vpc.rec[2].hash["g2"]

\* The hashes that the engine was given with enqueue_create_<kind>, in the
\* order of the calls.
Enqueued(k) ==
    SelectSeq(vpc.replayer.calls, LAMBDA c : c.call = "enqueue_create" /\ c.kind = k)

DeliveredHashes(k) == [i \in DOMAIN Enqueued(k) |-> Enqueued(k)[i].hash]

RegisteredHashes(k) == [i \in DOMAIN vpc.R.reg[k] |-> vpc.R.reg[k][i].hash]

\* C18 (as claimed): whatever was registered, serialize() followed by
\* parse() hands the engine, for each of the seven kinds, the registered
\* entities in registration order with their hashes.
C18_RoundTripPreserved ==
    (vpc.pc \in {"returned", "aborted"} /\ vpc.own) =>
        /\ vpc.pc = "returned"
        /\ vpc.replayer.result = "true"
        /\ \A k \in Kinds : DeliveredHashes(k) = RegisteredHashes(k)

\* The place of a kind in the order of the claim, and in that of parse().
ClaimedPlace(k) == CHOOSE n \in DOMAIN KindOrder : KindOrder[n] = k

PlaceInParse(k) ==
    IF k = "shader_module" THEN 1 ELSE IF k = "sampler" THEN 2
    ELSE IF k = "descriptor_set_layout" THEN 3 ELSE IF k = "pipeline_layout" THEN 4
    ELSE IF k = "render_pass" THEN 5 ELSE 6

EnqueueCalls == SelectSeq(vpc.replayer.calls, LAMBDA c : c.call = "enqueue_create")

ElementOf(c) == vpc.doc[MemberOf(c.kind)][c.index + 1]

Resolved(index, k) == IF index = 0 THEN NullHandle ELSE EngineHandle(k, index - 1)

ReferencesResolved(c) ==
    /\ (c.kind = "pipeline_layout" /\ HasMember(ElementOf(c), "setLayouts")) =>
        \A n \in DOMAIN ElementOf(c).setLayouts :
            c.info.pSetLayouts[n] = Resolved(ElementOf(c).setLayouts[n], "descriptor_set_layout")
    /\ (c.kind = "descriptor_set_layout" /\ HasMember(ElementOf(c), "bindings")) =>
        \A b \in DOMAIN ElementOf(c).bindings :
            HasMember(ElementOf(c).bindings[b], "immutableSamplers") =>
                \A n \in DOMAIN ElementOf(c).bindings[b].immutableSamplers :
                    c.info.pBindings[b].pImmutableSamplers[n]
                        = Resolved(ElementOf(c).bindings[b].immutableSamplers[n], "sampler")

C20_HashOfInstalledHandleOnly ==
    vpc.got.kind # "none" =>
        vpc.got.result =
            IF vpc.got.handle \in DOMAIN vpc.installed[vpc.got.kind]
            THEN vpc.R.reg[vpc.got.kind][vpc.installed[vpc.got.kind][vpc.got.handle] + 1].hash
            ELSE UnknownHandle

\* C21 (as claimed): when parse() returns false the engine has received no
\* enqueue_create_<kind> call from it.
C21_FailedParseWithoutCallbacks ==
    (vpc.pc = "returned" /\ vpc.replayer.result = "false") => EnqueueCalls = <<>>

\* The state of a slot in the life cycle of its worker, read off the handles
\* of its record: no process ("NONE": not started yet, or retired), a
\* process and no timer ("RUNNING"), a process and a timer ("CRASHING").
\* start_child_process creates the process and kicks the first read in one
\* call, and process_shutdown passes through EXITED (and through TERMINATED
\* before it) within one handler of the loop.
Phase(r) ==
    IF ~r.process THEN "NONE" ELSE IF r.timer_handle = "null" THEN "RUNNING" ELSE "CRASHING"

\* The step is a process_shutdown of slot i.
ShutdownOf(i) == last'.op \in {"exit", "timeout"} /\ last'.slot = i

\* EXITED to SPAWNED if progress was observed and range remains, else to
\* RETIRED.
AfterExit(i) ==
    Phase(child_processes'[i]) =
        IF /\ last'.gp >= 0
           /\ last'.cp >= 0
           /\ \/ last'.gp < child_processes[i].end_graphics_index
              \/ last'.cp < child_processes[i].end_compute_index
        THEN "RUNNING" ELSE "NONE"

SlotStep(i) ==
    IF ShutdownOf(i) THEN
        /\ \/ /\ last'.op = "exit"
              /\ Phase(child_processes[i]) \in {"RUNNING", "CRASHING"}
              /\ worker[i].state = "exited"
           \/ /\ last'.op = "timeout"
              /\ Phase(child_processes[i]) = "CRASHING"
              /\ child_processes[i].timer_handle = "signaled"
              /\ last'.code = 3
        /\ AfterExit(i)
    ELSE
        \/ Phase(child_processes'[i]) = Phase(child_processes[i])
        \/ /\ Phase(child_processes[i]) = "NONE"
           /\ Phase(child_processes'[i]) = "RUNNING"
           /\ mpc = "spawn"
           /\ next_i = i
        \/ /\ Phase(child_processes[i]) = "RUNNING"
           /\ Phase(child_processes'[i]) = "CRASHING"
           /\ last'.op = "once"
           /\ last'.slot = i
           /\ pipe[i] # <<>>
           /\ Head(pipe[i]).cmd = "CRASH"

C23_ExitZeroRetires ==
    /\ []((ShutDown /\ last.code = 0) => (~last.respawn /\ ~last.spawned /\ ~Slot.process))
    /\ [][(processes = 1 /\ 0 \in tally.codes) => tally'.spawns = tally.spawns]_vars

\* An exit with code 0 after the lines that would make a clean death with
\* work left.
C23_Witness ==
    /\ last.op = "exit" /\ last.code = 0
    /\ last.gp >= 0 /\ last.cp >= 0 /\ last.gp < last.before.end_graphics_index

\* C24: a record holds a timer only if a CRASH of its current process was
\* parsed; the timers created for a record and not closed are one when it
\* holds a timer and none when it does not; after process_shutdown the old
\* process's timer is closed and the record holds none.
C24_TimerOfCurrentCrash ==
    /\ \A i \in Slots :
        /\ child_processes[i].timer_handle # "null" => tally.crash_parsed[i]
        /\ tally.open[i].timer = IF child_processes[i].timer_handle # "null" THEN 1 ELSE 0
    /\ ShutDown => (Slot.timer_handle = "null" /\ tally.open[last.slot].timer = 0)

\* A second CRASH was parsed while the timer of the first was still held.
C24_Witness ==
    /\ last.op = "once"
    /\ last.before.timer_handle # "null"
    /\ Slot.timer_handle = "armed"
    /\ tally.open[last.slot].timer = 1

\* A process that had sent CRASH was shut down and replaced: the new
\* process's record holds no timer.
C24_WitnessRespawn ==
    /\ ShutDown /\ last.spawned
    /\ last.before.timer_handle # "null"
    /\ Slot.process /\ Slot.timer_handle = "null"

\* The handles a record holds, as counts: these are the handles the loop
\* enlists for it.
Held(r) ==
    [process |-> IF r.process THEN 1 ELSE 0,
     pipe |-> IF r.crash_file_handle THEN 1 ELSE 0,
     event |-> IF r.pipe_event THEN 1 ELSE 0,
     timer |-> IF r.timer_handle # "null" THEN 1 ELSE 0]

IsPrefix(s, t) == Len(s) <= Len(t) /\ \A k \in 1..Len(s) : s[k] = t[k]

InHandlerRun == vpc.pc \in {"running", "handler", "teardown", "exited"}

\* C25 (as claimed): a handler that ended without a failed write has written
\* CRASH, the MODULE lines, GRAPHICS and COMPUTE; what is written is always a
\* head of that sequence; emergency_teardown is called only after the whole
\* sequence; a handler that ended has ended with exit code 2.
C25_FullReportAlways ==
    InHandlerRun =>
        /\ IsPrefix(vpc.out, HandlerMessages(vpc.w))
        /\ (vpc.pc = "exited" /\ ~vpc.write_failed) => vpc.out = HandlerMessages(vpc.w)
        /\ vpc.teardown => vpc.out = HandlerMessages(vpc.w)
        /\ vpc.pc = "exited" => vpc.code = 2

\* C25 (amended): as above, but the report after CRASH is written only when
\* global_replayer is set; without it the handler writes CRASH, calls no
\* teardown and ends with exit code 2.
C25_ReportIfReplayer ==
    InHandlerRun =>
        /\ IsPrefix(vpc.out, HandlerMessages(vpc.w))
        /\ (vpc.pc = "exited" /\ ~vpc.write_failed) =>
              vpc.out = IF vpc.global_replayer THEN HandlerMessages(vpc.w)
                        ELSE <<Message("CRASH", <<"\n">>, -1)>>
        /\ vpc.teardown => (vpc.global_replayer /\ vpc.out = HandlerMessages(vpc.w))
        /\ vpc.pc = "exited" => vpc.code = 2
        /\ vpc.write_failed => (vpc.pc = "exited" /\ ~vpc.teardown)

\* A handler that reported two modules, tore down and left with code 2.
C25_Witness ==
    /\ InHandlerRun
    /\ vpc.pc = "exited" /\ vpc.teardown /\ vpc.code = 2
    /\ Len(vpc.out) = 5

\* A handler whose GRAPHICS write failed: it left with code 2 at once.
C25_WitnessWriteFails ==
    /\ InHandlerRun
    /\ vpc.pc = "exited" /\ vpc.write_failed /\ vpc.code = 2
    /\ Len(vpc.out) = 2 /\ Len(vpc.w.failed_module_hashes) = 1

\* C27 (as claimed): when process_once, called for a signaled pipe event,
\* reports a failed read, the record's pipe, event, timer and process are
\* released in that step.
C27_ReadFailureClosesWorker ==
    [][\A i \in Slots :
        (last'.op = "once" /\ last'.slot = i /\ ~ProcessOnce(Master, i).ok) =>
            Held(child_processes'[i]) = [process |-> 0, pipe |-> 0, event |-> 0, timer |-> 0]]_vars

\* C27 (as claimed, its consequence): a slot whose read failed is not
\* started again.
C27_ReadFailureNoRespawn ==
    [][\A i \in Slots :
        (last.op = "once" /\ last.slot = i /\ ~child_processes[i].io_pending
         /\ ShutdownOf(i)) => ~last'.spawned]_vars

\* C28 (as claimed): once the workers were started, run_master_process does
\* not return failure.
C28_NoAbortAfterStartup == mpc # "failed"

\* C29 (as claimed): the master is inside a ring-buffer write only as the
\* owner of the mutex, no other writer is inside one then, and the master
\* never is back from parse() as the owner of the mutex.
C29_MutexHeldOnlyForWrite ==
    /\ vpc.pc \in {"write", "release"} =>
        (vpc.owner = "master" /\ \A k \in Others : vpc.other[k] \notin {"inside", "wrote"})
    /\ vpc.pc = "idle" => vpc.owner # "master"

\* The part of C29 that holds: writes exclude each other.
C29_WritesExclude ==
    /\ vpc.pc \in {"write", "release"} =>
        (vpc.owner = "master" /\ \A k \in Others : vpc.other[k] \notin {"inside", "wrote"})
    /\ \A k \in Others : vpc.other[k] \in {"inside", "wrote"} => vpc.owner = k

PowersOfTwo == {2 ^ k : k \in 0..30}

\* The block passes the three tests of the claim.
Acceptable(b) ==
    /\ b.version_cookie = ControlBlockMagic
    /\ b.ring_buffer_offset >= SizeofSharedControlBlock
    /\ b.ring_buffer_size \in PowersOfTwo

FeedsBlendConstants(part) ==
    /\ Len(part) >= 4
    /\ SubSeq(part, Len(part) - 3, Len(part)) = <<<<"f32", 5>>, <<"f32", 6>>, <<"f32", 7>>, <<"f32", 8>>>>

HasF32(part) == \E n \in DOMAIN part : part[n][1] = "f32"

\* The tokens of the nine blocks, in the order they are fed, are part of the hash.
RECURSIVE Occurs(_, _)
Occurs(s, t) ==
    IF Len(s) > Len(t) THEN FALSE
    ELSE IF SubSeq(t, 1, Len(s)) = s THEN TRUE
    ELSE Occurs(s, Tail(t))

BlocksInHash ==
    Occurs(vpc.parts.pDynamicState \o vpc.parts.pDepthStencilState
           \o vpc.parts.pInputAssemblyState \o vpc.parts.pRasterizationState
           \o vpc.parts.pMultisampleState \o vpc.parts.pViewportState
           \o vpc.parts.pVertexInputState \o vpc.parts.pColorBlendState
           \o vpc.parts.pTessellationState, vpc.hash)

\* C31: the hash of a graphics pipeline holds the four blendConstants (as
\* the last tokens of the color-blend block, and no f32 token otherwise)
\* exactly if the attachment blends (blendEnable) with CONSTANT_COLOR or
\* CONSTANT_ALPHA as one of its four factors and BLEND_CONSTANTS is not
\* among the dynamic states.
C31_BlendConstantsIffUsed ==
    vpc.pc = "hashed" =>
        /\ BlocksInHash
        /\ FeedsBlendConstants(vpc.parts.pColorBlendState) <=>
              /\ vpc.info.pColorBlendState.present
              /\ vpc.enable = 1
              /\ vpc.factor \in {"CONSTANT_COLOR", "CONSTANT_ALPHA"}
              /\ "BLEND_CONSTANTS" \notin vpc.dynamic
        /\ HasF32(vpc.parts.pColorBlendState) => FeedsBlendConstants(vpc.parts.pColorBlendState)

\* A pipeline that blends with CONSTANT_ALPHA as destination alpha factor
\* and declares other dynamic states: the constants are in its hash.
C31_Witness ==
    /\ vpc.pc = "hashed"
    /\ vpc.factor = "CONSTANT_ALPHA" /\ vpc.enable = 1
    /\ vpc.info.pColorBlendState.present
    /\ vpc.info.pColorBlendState.pAttachments[1].dstAlphaBlendFactor = "CONSTANT_ALPHA"
    /\ vpc.dynamic = {"LINE_WIDTH", "SCISSOR"}
    /\ FeedsBlendConstants(vpc.parts.pColorBlendState)

\* C32 (as claimed): each of the nine blocks feeds the single token u32(0)
\* when it is null and its flags as first token when it is not.
C32_BlocksZeroOrFlagsFirst ==
    vpc.pc = "hashed" =>
        /\ BlocksInHash
        /\ \A f \in BlockNames :
            IF vpc.info[f].present
            THEN vpc.parts[f] # <<>> /\ vpc.parts[f][1] = <<"u32", vpc.info[f].flags>>
            ELSE vpc.parts[f] = <<<<"u32", 0>>>>

\* C32, the blocks for which it holds: all but the dynamic state (its count
\* is fed before its flags) and the multisample state (nothing is fed for a
\* null block).
C32_BlocksButTwo ==
    vpc.pc = "hashed" =>
        /\ \A f \in BlockNames \ {"pDynamicState", "pMultisampleState"} :
            IF vpc.info[f].present
            THEN vpc.parts[f] # <<>> /\ vpc.parts[f][1] = <<"u32", vpc.info[f].flags>>
            ELSE vpc.parts[f] = <<<<"u32", 0>>>>
        /\ ~vpc.info.pMultisampleState.present => vpc.parts.pMultisampleState = <<>>
        /\ vpc.info.pDynamicState.present =>
              vpc.parts.pDynamicState[1] = <<"u32", vpc.info.pDynamicState.dynamicStateCount>>

\* The cross-reference fields of a stored create-info of kind k, each with
\* the kind it refers to.
CrossReferences(k, info) ==
    IF k = "descriptor_set_layout" THEN
        UNION {{[kind |-> "sampler", field |-> "pImmutableSamplers",
                 value |-> info.pBindings[i].pImmutableSamplers[j]] :
                    j \in DOMAIN info.pBindings[i].pImmutableSamplers} :
                i \in {n \in DOMAIN info.pBindings :
                            info.pBindings[n].descriptorType \in SamplerTypes}}
    ELSE IF k = "pipeline_layout" THEN
        {[kind |-> "descriptor_set_layout", field |-> "pSetLayouts",
          value |-> info.pSetLayouts[i]] : i \in DOMAIN info.pSetLayouts}
    ELSE IF k = "compute_pipeline" THEN
        {[kind |-> "pipeline_layout", field |-> "layout", value |-> info.layout],
         [kind |-> "shader_module", field |-> "module", value |-> info.stage.module],
         [kind |-> "compute_pipeline", field |-> "basePipelineHandle",
          value |-> info.basePipelineHandle]}
    ELSE IF k = "graphics_pipeline" THEN
        {[kind |-> "pipeline_layout", field |-> "layout", value |-> info.layout],
         [kind |-> "render_pass", field |-> "renderPass", value |-> info.renderPass],
         [kind |-> "graphics_pipeline", field |-> "basePipelineHandle",
          value |-> info.basePipelineHandle]}
        \cup {[kind |-> "shader_module", field |-> "module", value |-> info.pStages[i].module] :
                i \in DOMAIN info.pStages}
    ELSE {}

\* The cross-references of the entries of recorder R, restricted to fields.
ReferencesInRange(R, fields) ==
    \A k \in Kinds : \A n \in DOMAIN R.reg[k] :
        \A ref \in CrossReferences(k, R.reg[k][n].info) :
            ref.field \in fields =>
                \/ ref.value = 0
                \/ ref.value >= 1 /\ ref.value <= Len(R.reg[ref.kind])

AllReferenceFields ==
    {"pImmutableSamplers", "pSetLayouts", "layout", "module", "renderPass",
     "basePipelineHandle"}

\* C33 (as claimed): in both recorders every cross-reference of every entry
\* is 0 or an index + 1 within the registry of the kind referred to.
C33_CrossReferencesResolve ==
    \A r \in 1..2 : ReferencesInRange(vpc.rec[r].R, AllReferenceFields)

\* C33, the fields for which it holds in these recordings: all but the
\* layout of a pipeline (never converted) and the immutable samplers (only
\* the element at the binding's own position is converted).
C33_ConvertedReferencesResolve ==
    \A r \in 1..2 :
        ReferencesInRange(vpc.rec[r].R, {"pSetLayouts", "module", "renderPass",
                                        "basePipelineHandle"})

\* The number of entries of all registries of recorder R.
RECURSIVE Entries(_, _)
Entries(R, ks) ==
    IF ks = {} THEN 0
    ELSE LET k == CHOOSE x \in ks : TRUE IN Len(R.reg[k]) + Entries(R, ks \ {k})

KindCalls(k) ==
    LET cs == SelectSeq(vpc.replayer.calls, LAMBDA c : c.kind = k)
    IN  [p \in DOMAIN cs |->
            <<cs[p].call, IF cs[p].call = "set_num" THEN cs[p].num
                          ELSE IF cs[p].call = "enqueue_create" THEN cs[p].index ELSE 0>>]

\* set_num(n), enqueue_create with the indices 0..n-1, wait_enqueue.
FullPattern(n) ==
    <<<<"set_num", n>>>> \o [i \in 1..n |-> <<"enqueue_create", i - 1>>]
    \o <<<<"wait_enqueue", 0>>>>

ElementCount(k) ==
    IF HasMember(vpc.doc, MemberOf(k)) THEN Len(vpc.doc[MemberOf(k)]) ELSE 0

\* The handles call c passes for objects of other kinds, with their kind.
PassedReferences(c) ==
    IF c.call # "enqueue_create" THEN {}
    ELSE IF c.kind = "pipeline_layout" THEN
        {[kind |-> "descriptor_set_layout", handle |-> c.info.pSetLayouts[n]] :
            n \in DOMAIN c.info.pSetLayouts}
    ELSE IF c.kind = "descriptor_set_layout" THEN
        UNION {{[kind |-> "sampler", handle |-> c.info.pBindings[b].pImmutableSamplers[n]] :
                    n \in DOMAIN c.info.pBindings[b].pImmutableSamplers} :
                b \in DOMAIN c.info.pBindings}
    ELSE {}

\* Every handle passed is one that the engine wrote to a slot of its kind
\* before the wait_enqueue of that kind, and that barrier is passed.
ResolvedBehindBarrier ==
    \A p \in DOMAIN vpc.replayer.calls :
        \A ref \in PassedReferences(vpc.replayer.calls[p]) :
            ref.handle # NullHandle =>
                \E w \in 1..(p - 1) :
                    /\ vpc.replayer.calls[w] = [call |-> "wait_enqueue", kind |-> ref.kind]
                    /\ \E q \in 1..(w - 1) :
                        /\ vpc.replayer.calls[q].call = "enqueue_create"
                        /\ vpc.replayer.calls[q].kind = ref.kind
                        /\ vpc.replayer.calls[q].handle = ref.handle

InParse == vpc.pc \in {"parsing", "returned"}

\* C35 (as claimed): after a parse() that returned true the engine got, for
\* each of the five kinds, set_num(n), the n calls with the indices 0..n-1
\* and wait_enqueue, kind after kind; references are resolved behind the
\* barrier of their kind.
C35_EveryKindEndsWithBarrier ==
    InParse =>
        /\ ResolvedBehindBarrier
        /\ (vpc.pc = "returned" /\ vpc.replayer.result = "true") =>
            \A k \in ParsedKinds : KindCalls(k) = FullPattern(ElementCount(k))

\* C35 (amended): as above for the kinds that have a member in the
\* document; for a kind without member the engine gets set_num(0) and no
\* wait_enqueue; and at any time, also when parse() returns false, the
\* calls of a kind are a head of that sequence.
C35_BarrierForKindsPresent ==
    InParse =>
        /\ ResolvedBehindBarrier
        /\ \A i, j \in DOMAIN vpc.replayer.calls :
            i < j => PlaceInParse(vpc.replayer.calls[i].kind)
                        <= PlaceInParse(vpc.replayer.calls[j].kind)
        /\ \A k \in ParsedKinds :
            /\ IsPrefix(KindCalls(k),
                        IF HasMember(vpc.doc, MemberOf(k)) THEN FullPattern(ElementCount(k))
                        ELSE <<<<"set_num", 0>>>>)
            /\ (vpc.pc = "returned" /\ vpc.replayer.result = "true") =>
                KindCalls(k) = IF HasMember(vpc.doc, MemberOf(k))
                               THEN FullPattern(ElementCount(k))
                               ELSE <<<<"set_num", 0>>>>

\* parse() returned true for a document without render passes whose set
\* layout refers to a sampler: two samplers were enqueued and waited for
\* before the set layout got the handle of one.
C35_Witness ==
    /\ vpc.pc = "returned" /\ vpc.replayer.result = "true"
    /\ ~HasMember(vpc.doc, "renderPasses")
    /\ KindCalls("sampler") = FullPattern(2)
    /\ KindCalls("render_pass") = <<<<"set_num", 0>>>>
    /\ \E p \in DOMAIN vpc.replayer.calls :
        \E ref \in PassedReferences(vpc.replayer.calls[p]) :
            ref.kind = "sampler" /\ ref.handle # NullHandle

\* The records whose process handle is not null.
WithProcess == {i \in 0..(processes - 1) : child_processes[i].process}

\* At the top of an iteration the counter is the number of records with a
\* process, and with a process there is a handle to wait for.
LoopTop ==
    mpc = "loop" =>
        /\ active_processes = Cardinality(WithProcess)
        /\ active_processes # 0 => WaitHandles # <<>>
        /\ active_processes = 0 => WaitHandles = <<>>

C37_ProgressPerIncarnation ==
    /\ \A i \in 0..(processes - 1) :
        child_processes[i].process =>
            /\ worker[i].hpc = 0 =>
                    /\ child_processes[i].graphics_progress = -1
                    /\ child_processes[i].compute_progress = -1
            /\ worker[i].hpc < 2 =>
                    \/ child_processes[i].graphics_progress < 0
                    \/ child_processes[i].compute_progress < 0
    /\ ShutDown =>
        /\ last.respawn => (last.code # 0 /\ last.gp >= 0 /\ last.cp >= 0 /\ last.hpc >= 2)
        /\ last.spawned => last.respawn
        /\ (last.code # 0 /\ (last.gp < 0 \/ last.cp < 0)) =>
                /\ ~last.spawned
                /\ ~Slot.process
                /\ control_block.attached =>
                        control_block.dirty_process_deaths = last.dirty0 + 1
        /\ last.spawned =>
                (Slot.graphics_progress = -1 /\ Slot.compute_progress = -1)

\* A worker that wrote one line, a GRAPHICS line, left with an exit code
\* other than 0 and its slot was not started again.
C37_Witness ==
    /\ ShutDown
    /\ last.code # 0 /\ last.hpc = 1
    /\ last.gp >= 0 /\ last.cp < 0
    /\ ~last.spawned

\* The second process of a slot, started after the first had reported both
\* markers, left without a line and the slot was not started again.
C37_WitnessSecondSilent ==
    /\ ShutDown
    /\ tally.spawns = 2
    /\ last.code # 0 /\ last.hpc = 0
    /\ last.gp = -1 /\ last.cp = -1
    /\ ~last.spawned

\* The slots whose ranges were set by the spawning loop.
Partitioned == {i \in 0..(processes - 1) : i < next_i}

\* [a, b) and [c, d) have no index in common.
Apart(a, b, c, d) == \A x \in a..(b - 1) : ~(c <= x /\ x < d)

\* The ranges of the records: each starts inside the range the partition
\* gave the slot, and the ranges of two slots have no index in common.
RangesApart ==
    \A i \in Partitioned :
        LET r == child_processes[i] IN
        /\ r.index = i
        /\ r.end_graphics_index = PartitionBound(i + 1, num_graphics_pipelines, processes)
        /\ r.end_compute_index = PartitionBound(i + 1, num_compute_pipelines, processes)
        /\ PartitionBound(i, num_graphics_pipelines, processes) <= r.start_graphics_index
        /\ PartitionBound(i, num_compute_pipelines, processes) <= r.start_compute_index
        /\ \A j \in Partitioned \ {i} :
            LET s == child_processes[j] IN
            /\ Apart(r.start_graphics_index, r.end_graphics_index,
                     s.start_graphics_index, s.end_graphics_index)
            /\ Apart(r.start_compute_index, r.end_compute_index,
                     s.start_compute_index, s.end_compute_index)

\* The ranges two running workers were started with have no index in common.
LiveWorkersApart ==
    \A i, j \in 0..(processes - 1) :
        (i # j /\ worker[i].state \notin {"none", "exited"}
               /\ worker[j].state \notin {"none", "exited"}) =>
            /\ Apart(worker[i].start_graphics_index, worker[i].end_graphics_index,
                     worker[j].start_graphics_index, worker[j].end_graphics_index)
            /\ Apart(worker[i].start_compute_index, worker[i].end_compute_index,
                     worker[j].start_compute_index, worker[j].end_compute_index)

\* C38: once the spawning loop has set them, end_graphics_index,
\* end_compute_index and index of a record never change, and with workers
\* that report progress inside their ranges the ranges of two slots, and of
\* two running workers, have no index in common, through every respawn.
C38_RangesStayApart ==
    /\ [](RangesApart /\ LiveWorkersApart)
    /\ [][\A i \in Partitioned :
            /\ child_processes'[i].end_graphics_index = child_processes[i].end_graphics_index
            /\ child_processes'[i].end_compute_index = child_processes[i].end_compute_index
            /\ child_processes'[i].index = child_processes[i].index
            /\ child_processes'[i].start_graphics_index >= child_processes[i].start_graphics_index
            /\ child_processes'[i].start_compute_index >= child_processes[i].start_compute_index]_vars

\* With two slots, one was started again behind the start the partition
\* gave it while the worker of the other runs.
C38_Witness ==
    /\ processes = 2
    /\ ShutDown /\ last.spawned
    /\ \/ Slot.start_graphics_index
                > PartitionBound(last.slot, num_graphics_pipelines, processes)
       \/ Slot.start_compute_index
                > PartitionBound(last.slot, num_compute_pipelines, processes)
    /\ \A i \in 0..1 : worker[i].state \notin {"none", "exited"}

\* What the control block shows of the run at any time.
FlagsInOrder ==
    /\ control_block.progress_complete = 1 =>
            /\ control_block.progress_started = 1
            /\ active_processes = 0
            /\ mpc = "done"
    /\ (control_block.attached /\ tally.spawns > 0) => control_block.progress_started = 1
    /\ tally.completes <= 1
    /\ mpc = "failed" => (control_block.progress_complete = 0 /\ tally.completes = 0)
    /\ (control_block.attached /\ mpc = "done") =>
            (control_block.progress_complete = 1 /\ tally.completes = 1)

\* C39: progress_started is stored before the first worker is spawned and
\* progress_complete only when the loop was left with active_processes at
\* 0, at most once in a run; progress_complete = 1 implies
\* progress_started = 1, and a run that returns EXIT_FAILURE has not
\* stored progress_complete.
C39_StartedBeforeComplete ==
    /\ []FlagsInOrder
    /\ [][/\ control_block'.progress_started # control_block.progress_started =>
                /\ control_block'.progress_started = 1
                /\ tally.spawns = 0 /\ tally'.spawns = 0
                /\ mpc = "start"
          /\ control_block'.progress_complete # control_block.progress_complete =>
                /\ control_block'.progress_complete = 1
                /\ control_block.progress_started = 1
                /\ mpc = "loop" /\ mpc' = "done"
                /\ active_processes = 0
                /\ tally'.completes = tally.completes + 1]_vars

\* A run with a control block came to its end after a respawn:
\* both flags are 1 and progress_complete was stored once.
C39_Witness ==
    /\ control_block.attached
    /\ mpc = "done"
    /\ tally.spawns > processes
    /\ control_block.progress_started = 1
    /\ control_block.progress_complete = 1
    /\ tally.completes = 1

\* A run with a control block returned EXIT_FAILURE: progress_started is
\* 1 and progress_complete is 0.
C39_WitnessFailure ==
    /\ control_block.attached
    /\ mpc = "failed"
    /\ control_block.progress_started = 1
    /\ control_block.progress_complete = 0

\* Two regions of one block with a byte in common.
Overlap(r, s) ==
    /\ r.block = s.block
    /\ r.size > 0 /\ s.size > 0
    /\ r.offset < s.offset + s.size
    /\ s.offset < r.offset + r.size

InAllocator == vpc.pc \in {"idle", "running"}

\* C40: allocate_raw(size, alignment) comes to an end for every size and
\* every alignment that is a power of two (after a new block was added the
\* call it makes to itself returns: it never has to call itself twice), and
\* it returns a region whose offset is a multiple of alignment, that lies
\* inside its block and has no byte in common with a region returned before.
C40_AllocateRawReturnsFreshRegion ==
    InAllocator =>
        /\ vpc.depth <= 1
        /\ \A n \in DOMAIN vpc.regions :
            LET r == vpc.regions[n] IN
            /\ r.offset % r.alignment = 0
            /\ r.offset + r.size <= vpc.blocks[r.block].size
            /\ \A m \in 1..(n - 1) : ~Overlap(r, vpc.regions[m])

\* The parts of C40 one at a time.
C40_Terminates == InAllocator => vpc.depth <= 1
C40_Aligned ==
    InAllocator => \A n \in DOMAIN vpc.regions :
                        vpc.regions[n].offset % vpc.regions[n].alignment = 0
C40_InsideBlock ==
    InAllocator => \A n \in DOMAIN vpc.regions :
        vpc.regions[n].offset + vpc.regions[n].size <= vpc.blocks[vpc.regions[n].block].size
C40_Apart ==
    InAllocator => \A n \in DOMAIN vpc.regions :
        \A m \in 1..(n - 1) : ~Overlap(vpc.regions[n], vpc.regions[m])
\* What does hold: a pointer is returned only at offset 0 of the last block.
C40_OnlyOffsetZero ==
    InAllocator => \A n \in DOMAIN vpc.regions : vpc.regions[n].offset = 0

====
